---- MODULE Spec2Model ----
(***************************************************************************)
(* Model of the aiguitar Song Model Engine: the fretboard mapper, the      *)
(* schema validator, the song model operations, the MIDI transcriber, the  *)
(* chat route, the GP5 export route, the generate-song route and the       *)
(* client component that holds the Song between turns.                     *)
(*                                                                         *)
(* Text that the code inspects character by character (the chat message,   *)
(* titles, key signatures) is a sequence of one-character strings.  Text   *)
(* that the code only passes around (draft text, replies) is a sequence of *)
(* string fragments.  An object is a record; an optional field that is     *)
(* absent is absent from the record's DOMAIN.                              *)
(***************************************************************************)
EXTENDS Integers, Sequences, FiniteSets, TLC

VARIABLES
    \* mapMidiToStringFret called on its own
    midi, tuning, mapResult, mapPc,
    \* validateSong called on its own
    input, parseResult, valPc,
    \* the song model operations applied one after another to a document
    song, opInput, opTrack, lastOp,
    \* midiToSong walking a decoded MIDI stream event by event
    header, trackIndex, absolute, tracks, deltas, eventCount, lastNote, midiResult, midiPc,
    lastEvent, tracksBefore,
    \* one request to the GP5 export route
    exportRevision, writerUrlSet, exportBody, writerRequests, exportResponse, exportPc,
    \* one turn of the chat route
    chatRevision, apiKeySet, chatBody, message, baseSong, agentCalls, firstContent,
    retryContent, chatResponse, chatPc,
    \* one request to the generate-song route
    genApiKeySet, midiUrlSet, genBody, genContent, genSong, genResponse, genPc,
    \* the client component taking turns
    clientRevision, clientSong, clientInput, clientMessages, clientFollowUps, clientError,
    isSubmitting, sent, answers, clientPc

mapperVars == <<midi, tuning, mapResult, mapPc>>
validatorVars == <<input, parseResult, valPc>>
opsVars == <<song, opInput, opTrack, lastOp>>
midiVars ==
    <<header, trackIndex, absolute, tracks, deltas, eventCount, lastNote, midiResult, midiPc,
      lastEvent, tracksBefore>>
exportVars ==
    <<exportRevision, writerUrlSet, exportBody, writerRequests, exportResponse, exportPc>>
chatVars ==
    <<chatRevision, apiKeySet, chatBody, message, baseSong, agentCalls, firstContent,
      retryContent, chatResponse, chatPc>>
genVars == <<genApiKeySet, midiUrlSet, genBody, genContent, genSong, genResponse, genPc>>
clientVars ==
    <<clientRevision, clientSong, clientInput, clientMessages, clientFollowUps, clientError,
      isSubmitting, sent, answers, clientPc>>
vars ==
    <<mapperVars, validatorVars, opsVars, midiVars, exportVars, chatVars, genVars, clientVars>>

(***************************************************************************)
(* General helpers                                                         *)
(***************************************************************************)
Has(r, f) == f \in DOMAIN r

Get(r, f, d) == IF f \in DOMAIN r THEN r[f] ELSE d

\* JavaScript object spread {...base, ...over}: fields of over win
Spread(base, over) == over @@ base

Without(r, f) == [k \in DOMAIN r \ {f} |-> r[k]]

Max(a, b) == IF a >= b THEN a ELSE b

Min(a, b) == IF a <= b THEN a ELSE b

SeqsUpTo(S, n) == UNION {[1..k -> S] : k \in 0..n}

(***************************************************************************)
(* Note / fretboard mapper (noteMapping.ts)                                *)
(***************************************************************************)
STANDARD_TUNING == <<40, 45, 50, 55, 59, 64>>

MaxMappedFret == 24

\* the forEach loop of mapMidiToStringFret from 0-based position index on
RECURSIVE mapScan(_, _, _, _, _)
mapScan(m, tun, index, bestString, bestFret) ==
    IF index >= Len(tun)
    THEN [string |-> bestString, fret |-> bestFret]
    ELSE LET fret == m - tun[index + 1]
         IN  IF fret >= 0 /\ fret <= MaxMappedFret
             THEN mapScan(m, tun, index + 1, index + 1, fret)
             ELSE mapScan(m, tun, index + 1, bestString, bestFret)

\* mutant: the first candidate wins (a found candidate is never overwritten)
RECURSIVE mapScanFirst(_, _, _)
mapScanFirst(m, tun, index) ==
    IF index >= Len(tun)
    THEN [string |-> 1, fret |-> 0]
    ELSE LET fret == m - tun[index + 1]
         IN  IF fret >= 0 /\ fret <= MaxMappedFret
             THEN [string |-> index + 1, fret |-> fret]
             ELSE mapScanFirst(m, tun, index + 1)

mapMidiToStringFret_firstWins(m, tun) == mapScanFirst(m, tun, 0)

\* mutant: the upper fret limit is not tested
RECURSIVE mapScanNoLimit(_, _, _, _, _)
mapScanNoLimit(m, tun, index, bestString, bestFret) ==
    IF index >= Len(tun)
    THEN [string |-> bestString, fret |-> bestFret]
    ELSE LET fret == m - tun[index + 1]
         IN  IF fret >= 0
             THEN mapScanNoLimit(m, tun, index + 1, index + 1, fret)
             ELSE mapScanNoLimit(m, tun, index + 1, bestString, bestFret)

mapMidiToStringFret_noLimit(m, tun) == mapScanNoLimit(m, tun, 0, 1, 0)

mapMidiToStringFret(m, tun) == mapScan(m, tun, 0, 1, 0)

(***************************************************************************)
(* Schema validator (songSchema).  A zod object schema reads the known     *)
(* keys of its input, fills a key that has a default when it is absent,    *)
(* leaves an absent optional key absent, drops unknown keys, and collects  *)
(* one issue (a field path) for every key that is required and absent or   *)
(* outside its bound.  Values of the wrong JSON type are not modelled.     *)
(***************************************************************************)
MinTempo == 30

MaxTempo == 300

DefaultTempo == 120

MinVelocity == 1

MaxVelocity == 127

DefaultVelocity == 90

MaxFret == 36

MaxString == 12

MaxCapo == 24

MaxVolume == 127

DefaultVolume == 100

DefaultPan == 64

Untitled == <<"U", "n", "t", "i", "t", "l", "e", "d">>

KeyC == <<"C">>

DefaultTimeSignature == [beats |-> 4, beatType |-> 4]

\* the path element of array position i (1-based here, 0-based in the code)
Idx(i) == ToString(i - 1)

Pick(r, keys) == [k \in DOMAIN r \cap keys |-> r[k]]

RequiredIssues(r, f, path) == IF Has(r, f) THEN {} ELSE {path \o <<f>>}

\* z.number().int().min(lo).max(hi) on key f, when present
IntIssues(r, f, lo, hi, path) ==
    IF Has(r, f) /\ (r[f] < lo \/ r[f] > hi) THEN {path \o <<f>>} ELSE {}

\* z.number().int().min(lo) on key f, when present
MinIssues(r, f, lo, path) ==
    IF Has(r, f) /\ r[f] < lo THEN {path \o <<f>>} ELSE {}

TimeSignatureIssues(r, path) ==
    RequiredIssues(r, "beats", path) \cup IntIssues(r, "beats", 1, 32, path)
    \cup RequiredIssues(r, "beatType", path) \cup IntIssues(r, "beatType", 1, 32, path)

TimeSignatureData(r) == Pick(r, {"beats", "beatType"})

DurationIssues(r, path) ==
    RequiredIssues(r, "numerator", path) \cup IntIssues(r, "numerator", 1, 64, path)
    \cup RequiredIssues(r, "denominator", path) \cup IntIssues(r, "denominator", 1, 64, path)
    \cup (IF Has(r, "tuplet")
          THEN RequiredIssues(r.tuplet, "inTimeOf", path \o <<"tuplet">>)
               \cup IntIssues(r.tuplet, "inTimeOf", 1, 9, path \o <<"tuplet">>)
               \cup RequiredIssues(r.tuplet, "notes", path \o <<"tuplet">>)
               \cup IntIssues(r.tuplet, "notes", 1, 9, path \o <<"tuplet">>)
          ELSE {})

DurationData(r) ==
    LET known == Pick(r, {"numerator", "denominator", "dotted", "tuplet"})
        filled == Spread([dotted |-> FALSE], known)
    IN  IF Has(r, "tuplet")
        THEN [filled EXCEPT !.tuplet = Pick(@, {"inTimeOf", "notes"})]
        ELSE filled

NoteTypes == {"note", "rest"}

NoteIssues(r, path) ==
    RequiredIssues(r, "type", path)
    \cup (IF Has(r, "type") /\ r.type \notin NoteTypes THEN {path \o <<"type">>} ELSE {})
    \cup IntIssues(r, "string", 1, MaxString, path)
    \cup IntIssues(r, "fret", 0, MaxFret, path)
    \cup IntIssues(r, "midiPitch", 0, 127, path)
    \cup RequiredIssues(r, "duration", path)
    \cup (IF Has(r, "duration") THEN DurationIssues(r.duration, path \o <<"duration">>) ELSE {})
    \cup IntIssues(r, "velocity", MinVelocity, MaxVelocity, path)

NoteKeys == {"type", "string", "fret", "midiPitch", "duration", "velocity", "effects"}

NoteData(r) ==
    LET filled == Spread([velocity |-> DefaultVelocity], Pick(r, NoteKeys))
    IN  [filled EXCEPT !.duration = DurationData(@)]

BeatIssues(r, path) ==
    RequiredIssues(r, "start", path)
    \cup MinIssues(r, "start", 0, path)
    \cup RequiredIssues(r, "notes", path)
    \cup (IF Has(r, "notes")
          THEN UNION {NoteIssues(r.notes[i], path \o <<"notes", Idx(i)>>) : i \in DOMAIN r.notes}
          ELSE {})

BeatKeys == {"start", "notes", "chordName", "text"}

BeatData(r) ==
    [Pick(r, BeatKeys) EXCEPT !.notes = [i \in DOMAIN @ |-> NoteData(@[i])]]

MeasureIssues(r, path) ==
    RequiredIssues(r, "index", path)
    \cup MinIssues(r, "index", 0, path)
    \cup RequiredIssues(r, "beats", path)
    \cup (IF Has(r, "beats")
          THEN UNION {BeatIssues(r.beats[i], path \o <<"beats", Idx(i)>>) : i \in DOMAIN r.beats}
          ELSE {})

MeasureKeys == {"index", "header", "beats", "lyrics"}

MeasureData(r) ==
    [Pick(r, MeasureKeys) EXCEPT !.beats = [i \in DOMAIN @ |-> BeatData(@[i])]]

TrackIssues(r, path) ==
    RequiredIssues(r, "id", path)
    \cup RequiredIssues(r, "name", path)
    \cup RequiredIssues(r, "instrument", path)
    \cup IntIssues(r, "stringCount", 1, MaxString, path)
    \cup (IF Has(r, "tuning")
          THEN {path \o <<"tuning", Idx(i)>> :
                   i \in {j \in DOMAIN r.tuning : r.tuning[j] < 0 \/ r.tuning[j] > 127}}
          ELSE {})
    \cup IntIssues(r, "capo", 0, MaxCapo, path)
    \cup IntIssues(r, "volume", 0, MaxVolume, path)
    \cup IntIssues(r, "pan", 0, 127, path)
    \cup RequiredIssues(r, "measures", path)
    \cup (IF Has(r, "measures")
          THEN UNION {MeasureIssues(r.measures[i], path \o <<"measures", Idx(i)>>) :
                         i \in DOMAIN r.measures}
          ELSE {})

TrackKeys ==
    {"id", "name", "instrument", "isDrums", "stringCount", "tuning", "capo", "volume",
     "pan", "measures"}

TrackDefaults ==
    [isDrums |-> FALSE, capo |-> 0, volume |-> DefaultVolume, pan |-> DefaultPan]

TrackData(r) ==
    [Spread(TrackDefaults, Pick(r, TrackKeys))
        EXCEPT !.measures = [i \in DOMAIN @ |-> MeasureData(@[i])]]

SectionIssues(r, path) ==
    RequiredIssues(r, "name", path)
    \cup RequiredIssues(r, "startMeasure", path)
    \cup MinIssues(r, "startMeasure", 0, path)
    \cup RequiredIssues(r, "length", path)
    \cup MinIssues(r, "length", 1, path)

SectionData(r) == Pick(r, {"name", "startMeasure", "length"})

SongMetadataIssues(r, path) ==
    IntIssues(r, "tempo", MinTempo, MaxTempo, path)
    \cup (IF Has(r, "timeSignature")
          THEN TimeSignatureIssues(r.timeSignature, path \o <<"timeSignature">>)
          ELSE {})

MetadataKeys ==
    {"title", "artist", "album", "tempo", "tempoName", "keySignature", "timeSignature",
     "version"}

MetadataDefaults ==
    [title |-> Untitled, artist |-> "Unknown Artist", tempo |-> DefaultTempo,
     keySignature |-> KeyC, timeSignature |-> DefaultTimeSignature, version |-> "5.00"]

SongMetadataData(r) ==
    [Spread(MetadataDefaults, Pick(r, MetadataKeys))
        EXCEPT !.timeSignature = TimeSignatureData(@)]

SongIssues(r) ==
    RequiredIssues(r, "metadata", <<>>)
    \cup (IF Has(r, "metadata") THEN SongMetadataIssues(r.metadata, <<"metadata">>) ELSE {})
    \cup (IF Has(r, "sections")
          THEN UNION {SectionIssues(r.sections[i], <<"sections", Idx(i)>>) :
                         i \in DOMAIN r.sections}
          ELSE {})
    \cup RequiredIssues(r, "tracks", <<>>)
    \cup (IF Has(r, "tracks")
          THEN UNION {TrackIssues(r.tracks[i], <<"tracks", Idx(i)>>) : i \in DOMAIN r.tracks}
          ELSE {})

SongKeys ==
    {"metadata", "sections", "tracks", "draftText", "chordsBySection", "readyForExport"}

SongDefaults == [sections |-> <<>>, readyForExport |-> FALSE]

SongData(r) ==
    [Spread(SongDefaults, Pick(r, SongKeys))
        EXCEPT !.metadata = SongMetadataData(@),
               !.sections = [i \in DOMAIN @ |-> SectionData(@[i])],
               !.tracks = [i \in DOMAIN @ |-> TrackData(@[i])]]

\* mutant: an out-of-range tempo is clamped into [30, 300] instead of rejected
safeParse_clampTempo(r) ==
    LET clamped ==
            IF Has(r, "metadata") /\ Has(r.metadata, "tempo")
            THEN [r EXCEPT !.metadata.tempo = Max(MinTempo, Min(MaxTempo, @))]
            ELSE r
    IN  IF SongIssues(clamped) = {}
        THEN [success |-> TRUE, data |-> SongData(clamped)]
        ELSE [success |-> FALSE, issues |-> SongIssues(clamped)]

\* mutant: the pan default is taken from the volume default
safeParse_panDefault(r) ==
    IF SongIssues(r) = {}
    THEN [success |-> TRUE,
          data |-> [SongData(r) EXCEPT !.tracks =
                      [i \in DOMAIN @ |->
                          IF Has(r.tracks[i], "pan") THEN @[i]
                          ELSE [@[i] EXCEPT !.pan = DefaultVolume]]]]
    ELSE [success |-> FALSE, issues |-> SongIssues(r)]

\* SongSchema.safeParse: the parsed Song, or the issues (field paths)
safeParse(r) ==
    IF SongIssues(r) = {}
    THEN [success |-> TRUE, data |-> SongData(r)]
    ELSE [success |-> FALSE, issues |-> SongIssues(r)]

\* validateSong / SongSchema.parse: returns the data, or throws the ZodError
\* that carries the issues; a result with success = FALSE stands for the throw
validateSong(r) == safeParse(r)

IsValidSong(r) == safeParse(r).success

\* ---- validateSong called on its own ----
\* S, and every member of S extended by key f with a value of vals
WithOptional(S, f, vals) == S \cup {(f :> v) @@ b : b \in S, v \in vals}

QuarterNote == [numerator |-> 1, denominator |-> 4, dotted |-> FALSE]

InputNotes ==
    WithOptional(
        WithOptional(
            {[type |-> "note", string |-> 6, duration |-> QuarterNote]},
            "velocity", {0, 1, 127, 128}),
        "fret", {-1, 0, 36, 37})

\* a track with one measure holding one beat with note n
InputTrack(n) ==
    [id |-> "lead", name |-> "Lead", instrument |-> "Guitar",
     measures |-> <<[index |-> 0, beats |-> <<[start |-> 0, notes |-> <<n>>]>>]>>]

InputTracks ==
    UNION {{InputTrack(n),
            [capo |-> 2, volume |-> 80] @@ InputTrack(n),
            [pan |-> 10] @@ InputTrack(n)} : n \in InputNotes}

MaxInputTracks == 1

KeyG == <<"G">>

InputMetadata ==
    WithOptional(
        WithOptional(
            {[title |-> <<"X">>, artist |-> "Me", version |-> "5.10",
              timeSignature |-> [beats |-> 3, beatType |-> 4]],
             [title |-> <<"X">>]},
            "tempo", {29, 30, 300, 301}),
        "keySignature", {KeyG})

ValidatorInputs ==
    WithOptional(
        {[metadata |-> m, tracks |-> ts] :
            m \in InputMetadata, ts \in SeqsUpTo(InputTracks, MaxInputTracks)}
        \cup {[tracks |-> <<>>]},
        "readyForExport", {TRUE})

NoParseResult == [success |-> FALSE, issues |-> {}]

ValidatorInit ==
    /\ input \in ValidatorInputs
    /\ parseResult = NoParseResult
    /\ valPc = "call"

ValidatorIdle ==
    /\ input = <<>>
    /\ parseResult = NoParseResult
    /\ valPc = "idle"

Validate ==
    /\ valPc = "call"
    /\ parseResult' = validateSong(input)
    /\ valPc' = "returned"
    /\ UNCHANGED input

(***************************************************************************)
(* Song model operations (songModel.ts)                                    *)
(***************************************************************************)
createEmptySong ==
    validateSong(
        [metadata |-> [title |-> Untitled, artist |-> "Unknown Artist", tempo |-> 120,
                       keySignature |-> KeyC,
                       timeSignature |-> [beats |-> 4, beatType |-> 4],
                       version |-> "5.00"],
         sections |-> <<>>,
         tracks |-> <<>>]).data

\* song.tracks.reduce((max, track) => Math.max(max, track.measures.length), 0)
RECURSIVE reduceMaxMeasures(_, _, _)
reduceMaxMeasures(ts, i, max) ==
    IF i > Len(ts) THEN max
    ELSE reduceMaxMeasures(ts, i + 1, Max(max, Len(ts[i].measures)))

\* mutant: the padding is numbered from 0
emptyMeasures_fromZero(from, n) ==
    [i \in 1..Max(n, 0) |-> [index |-> i - 1, beats |-> <<>>]]

\* Array.from({ length: n }, (_, i) => ({ index: from + i, beats: [] }))
emptyMeasures(from, n) ==
    [i \in 1..Max(n, 0) |-> [index |-> from + i - 1, beats |-> <<>>]]

\* mutant: the target length is the first track's length, not the maximum
ensureMeasureCounts_firstTrack(s) ==
    LET maxMeasures == IF Len(s.tracks) = 0 THEN 0 ELSE Len(s.tracks[1].measures)
        normalized(track) ==
            IF Len(track.measures) = maxMeasures THEN track
            ELSE [track EXCEPT !.measures =
                    @ \o emptyMeasures(Len(track.measures), maxMeasures - Len(track.measures))]
    IN  [s EXCEPT !.tracks = [i \in DOMAIN @ |-> normalized(@[i])]]

\* mutant: a short track gets one measure of padding too many
ensureMeasureCounts_offByOne(s) ==
    LET maxMeasures == reduceMaxMeasures(s.tracks, 1, 0)
        normalized(track) ==
            IF Len(track.measures) = maxMeasures THEN track
            ELSE [track EXCEPT !.measures =
                    @ \o emptyMeasures(Len(track.measures), maxMeasures - Len(track.measures) + 1)]
    IN  [s EXCEPT !.tracks = [i \in DOMAIN @ |-> normalized(@[i])]]

ensureMeasureCounts(s) ==
    LET maxMeasures == reduceMaxMeasures(s.tracks, 1, 0)
        normalized(track) ==
            IF Len(track.measures) = maxMeasures THEN track
            ELSE [track EXCEPT !.measures =
                    @ \o emptyMeasures(Len(track.measures), maxMeasures - Len(track.measures))]
    IN  [s EXCEPT !.tracks = [i \in DOMAIN @ |-> normalized(@[i])]]

addTrack(s, track) == ensureMeasureCounts([s EXCEPT !.tracks = Append(@, track)])

updateMetadata(s, metadata) == [s EXCEPT !.metadata = Spread(@, metadata)]

createDefaultMeasure(index) ==
    [index |-> index,
     beats |-> <<[start |-> 0,
                  notes |-> <<[type |-> "note", string |-> 6, fret |-> 0,
                               duration |-> [numerator |-> 1, denominator |-> 4,
                                             dotted |-> FALSE],
                               velocity |-> 90]>>]>>]

createDefaultTrack ==
    [id |-> "guitar", name |-> "Guitar", instrument |-> "Guitar", isDrums |-> FALSE,
     stringCount |-> 6, tuning |-> <<40, 45, 50, 55, 59, 64>>, capo |-> 0,
     volume |-> 100, pan |-> 64, measures |-> <<createDefaultMeasure(0)>>]

\* mutant: measures that hold no beat are left as they are
ensureMinimumSong_keepsEmptyBeats(s) ==
    IF Len(s.tracks) = 0
    THEN [s EXCEPT !.tracks = <<createDefaultTrack>>]
    ELSE LET fixedTrack(track) ==
                 IF ~Has(track, "measures") \/ Len(track.measures) = 0
                 THEN Spread(track, [measures |-> <<createDefaultMeasure(0)>>])
                 ELSE track
         IN  [s EXCEPT !.tracks = [i \in DOMAIN @ |-> fixedTrack(@[i])]]

ensureMinimumSong(s) ==
    IF Len(s.tracks) = 0
    THEN [s EXCEPT !.tracks = <<createDefaultTrack>>]
    ELSE LET fixedMeasure(measure, index) ==
                 Spread(measure,
                        [index |-> IF Has(measure, "index") THEN measure.index ELSE index,
                         beats |-> IF Has(measure, "beats") /\ Len(measure.beats) > 0
                                   THEN measure.beats
                                   ELSE <<createDefaultMeasure(index).beats[1]>>])
             fixedTrack(track) ==
                 IF ~Has(track, "measures") \/ Len(track.measures) = 0
                 THEN Spread(track, [measures |-> <<createDefaultMeasure(0)>>])
                 ELSE [track EXCEPT !.measures =
                         [j \in DOMAIN @ |-> fixedMeasure(@[j], j - 1)]]
         IN  [s EXCEPT !.tracks = [i \in DOMAIN @ |-> fixedTrack(@[i])]]

\* buildTrack of the chat route; an undefined stringCount / tuning is an absent key
buildTrack(id, name, instrument, isDrums) ==
    IF isDrums
    THEN [id |-> id, name |-> name, instrument |-> instrument, isDrums |-> TRUE,
          capo |-> 0, volume |-> 100, pan |-> 64, measures |-> <<>>]
    ELSE [id |-> id, name |-> name, instrument |-> instrument, isDrums |-> FALSE,
          stringCount |-> 6, tuning |-> <<40, 45, 50, 55, 59, 64>>,
          capo |-> 0, volume |-> 100, pan |-> 64, measures |-> <<>>]

\* createChordBeat: one quarter note on rootString at fret
createChordBeat(rootString, fret) ==
    [start |-> 0,
     notes |-> <<[type |-> "note", string |-> rootString, fret |-> fret,
                  duration |-> [numerator |-> 1, denominator |-> 4, dotted |-> FALSE],
                  velocity |-> 90]>>]

createMeasureWithFret(index, fret) == [index |-> index, beats |-> <<createChordBeat(6, fret)>>]

ProgressionFrets == <<0, 3, 5, 8>>

\* mutant: the last measure of the progression is at fret 7
buildProgressionMeasures_otherFrets ==
    [i \in DOMAIN ProgressionFrets |->
        createMeasureWithFret(i - 1, IF i = 4 THEN 7 ELSE ProgressionFrets[i])]

\* frets.map((fret, index) => createMeasureWithFret(index, fret))
buildProgressionMeasures ==
    [i \in DOMAIN ProgressionFrets |-> createMeasureWithFret(i - 1, ProgressionFrets[i])]

DefaultBassTrack ==
    Spread(createDefaultTrack, [id |-> "bass", name |-> "Bass", instrument |-> "Bass"])

\* stringCount: undefined and tuning: undefined are absent keys
DefaultDrumsTrack ==
    Without(Without(Spread(createDefaultTrack,
                           [id |-> "drums", name |-> "Drums", instrument |-> "Drum Kit",
                            isDrums |-> TRUE]),
                    "stringCount"),
            "tuning")

\* the enriched list of ensureTracksWithDefaults for the list ts
enrichedTracks(ts) ==
    ts
    \o (IF \E i \in DOMAIN ts : ts[i].instrument = "Bass" THEN <<>> ELSE <<DefaultBassTrack>>)
    \o (IF \E i \in DOMAIN ts : Get(ts[i], "isDrums", FALSE) THEN <<>>
        ELSE <<DefaultDrumsTrack>>)

ensureTracksWithDefaults(s) ==
    Spread(s, [tracks |-> enrichedTracks(IF Len(s.tracks) # 0 THEN s.tracks
                                         ELSE <<createDefaultTrack>>)])

\* ensureMusicalSong: a track without measures gets the progression
fillProgressions(s) ==
    Spread(s, [tracks |-> [i \in DOMAIN s.tracks |->
                              IF Len(s.tracks[i].measures) = 0
                              THEN Spread(s.tracks[i], [measures |-> buildProgressionMeasures])
                              ELSE s.tracks[i]]])

PlaceholderChords == [Intro |-> <<"D5", "F5", "G5", "Bb5">>]

\* if (!updated.chordsBySection): an object, even an empty one, is kept
fillChords(s) ==
    IF Has(s, "chordsBySection") THEN s ELSE Spread(s, [chordsBySection |-> PlaceholderChords])

PlaceholderDraft ==
    <<"Auto-generated song draft. Intro progression: D5 - F5 - G5 - Bb5. Feel: steady 4/4.">>

\* if (!updated.draftText): an absent or empty text is replaced
fillDraftText(s) ==
    IF Get(s, "draftText", <<>>) # <<>> THEN s ELSE Spread(s, [draftText |-> PlaceholderDraft])

ensureMusicalSong(s) ==
    ensureMinimumSong(fillDraftText(fillChords(fillProgressions(ensureTracksWithDefaults(s)))))

\* ---- the operations applied to a document ----
MaxTracks == 2

MaxMeasures == 2

ShiftedIndex == 5

\* n measures of one kind: empty, holding the default beat, or with indices
\* that do not equal their position (which the schema allows)
MeasureList(n, kind) ==
    [i \in 1..n |->
        IF kind = "beat" THEN createDefaultMeasure(i - 1)
        ELSE IF kind = "shifted" THEN [index |-> i - 1 + ShiftedIndex, beats |-> <<>>]
        ELSE [index |-> i - 1, beats |-> <<>>]]

MeasureLists(maxN) ==
    {MeasureList(n, kind) : n \in 0..maxN, kind \in {"empty", "beat", "shifted"}}

BareTracks ==
    {buildTrack("guitar", "Guitar", "Guitar", FALSE),
     buildTrack("bass", "Bass", "Bass", FALSE),
     buildTrack("drums", "Drums", "Drum Kit", TRUE)}

\* a schema-valid track whose id is "bass" and whose instrument is not "Bass"
ElectricBassTrack ==
    [buildTrack("bass", "Bass", "Electric Bass", FALSE) EXCEPT
        !.measures = MeasureList(1, "beat")]

OpsTracks == {[t EXCEPT !.measures = ms] : t \in BareTracks, ms \in MeasureLists(MaxMeasures)}

\* what a document may bring besides its tracks: nothing, or chords, a draft
\* and the export flag set
OpsExtras ==
    {[readyForExport |-> FALSE],
     [draftText |-> <<"Verse: my own words">>, chordsBySection |-> [Verse |-> <<"Am", "G">>],
      readyForExport |-> TRUE]}

OpsSongs ==
    {Spread([createEmptySong EXCEPT !.tracks = ts], extra) :
        ts \in SeqsUpTo(OpsTracks, MaxTracks), extra \in OpsExtras}

NoTrack == <<>>

OpsInit ==
    /\ song \in OpsSongs
    /\ opInput = song
    /\ opTrack = NoTrack
    /\ lastOp = "none"

OpsIdle ==
    /\ song = createEmptySong
    /\ opInput = createEmptySong
    /\ opTrack = NoTrack
    /\ lastOp = "idle"

OpEnsureMeasureCounts ==
    /\ lastOp # "idle"
    /\ song' = ensureMeasureCounts(song)
    /\ opInput' = song
    /\ opTrack' = NoTrack
    /\ lastOp' = "ensureMeasureCounts"

OpAddTrack(track) ==
    /\ lastOp # "idle"
    /\ Len(song.tracks) < MaxTracks
    /\ song' = addTrack(song, track)
    /\ opInput' = song
    /\ opTrack' = track
    /\ lastOp' = "addTrack"

OpEnsureMinimumSong ==
    /\ lastOp # "idle"
    /\ song' = ensureMinimumSong(song)
    /\ opInput' = song
    /\ opTrack' = NoTrack
    /\ lastOp' = "ensureMinimumSong"

\* ---- ensureMusicalSong applied to a document ----
UserChords == [Verse |-> <<"Am", "G">>]

UserDraft == <<"Verse: my own words">>

\* tracks without measures, with measures that hold no beat, and with one
\* measure that holds the default beat; and the electric bass
MusicalTracks ==
    {[t EXCEPT !.measures = ms] :
        t \in BareTracks,
        ms \in {MeasureList(n, "empty") : n \in 0..MaxMeasures} \cup {MeasureList(1, "beat")}}
    \cup {ElectricBassTrack}

\* what a document may bring besides its tracks: nothing, chords, a draft,
\* an empty draft, chords and a draft
MusicalExtras ==
    {[readyForExport |-> FALSE],
     [chordsBySection |-> UserChords],
     [draftText |-> UserDraft],
     [draftText |-> <<>>],
     [chordsBySection |-> UserChords, draftText |-> UserDraft]}

MusicalSongs ==
    {Spread([createEmptySong EXCEPT !.tracks = ts], extra) :
        ts \in SeqsUpTo(MusicalTracks, MaxTracks), extra \in MusicalExtras}

MusicalInit ==
    /\ song \in MusicalSongs
    /\ opInput = song
    /\ opTrack = NoTrack
    /\ lastOp = "none"

OpEnsureMusicalSong ==
    /\ lastOp # "idle"
    /\ song' = ensureMusicalSong(song)
    /\ opInput' = song
    /\ opTrack' = NoTrack
    /\ lastOp' = "ensureMusicalSong"

(***************************************************************************)
(* MIDI transcriber (midiToSong).  The decoded stream is read one event at  *)
(* a time: trackIndex is the position in midi.tracks of the source track    *)
(* being read (position 0 is skipped by slice(1)), absolute the running     *)
(* tick sum of that source track, tracks the three destination tracks.      *)
(* deltas, eventCount, lastNote, lastEvent (the event read last) and        *)
(* tracksBefore (the tracks before it was read) record what was read.       *)
(***************************************************************************)
defaultTuningForTrack(track) ==
    IF Has(track, "tuning") /\ Len(track.tuning) > 0 THEN track.tuning ELSE STANDARD_TUNING

\* ensureTrack of midiToSong: the id is the lower-cased name
ensureTrack(name, instrument, isDrums) ==
    buildTrack(CASE name = "Guitar" -> "guitar" [] name = "Bass" -> "bass" [] OTHER -> "drums",
               name, instrument, isDrums)

DefaultTicksPerBeat == 480

beatsPerMeasure == 4

ticksPerBeat == Get(header, "ticksPerBeat", DefaultTicksPerBeat)

ticksPerMeasure == ticksPerBeat * beatsPerMeasure

MidiDestinationTracks ==
    <<ensureTrack("Guitar", "Guitar", FALSE),
      ensureTrack("Bass", "Bass", FALSE),
      ensureTrack("Drums", "Drum Kit", TRUE)>>

\* mutant: source tracks past the third wrap around to Guitar
TargetOf_wrap(k) == ((k - 1) % Len(MidiDestinationTracks)) + 1

\* tracks[Math.min(trackIndex, tracks.length - 1)], as a 1-based position, for
\* the source track at position k of midi.tracks (trackIndex = k - 1)
TargetOf(k) == Min(k - 1, Len(MidiDestinationTracks) - 1) + 1

\* mutant: a note-on of velocity zero is transcribed like any other note-on
IsTranscribed_anyVelocity(event) ==
    /\ event.type = "channel"
    /\ Has(event, "subtype")
    /\ event.subtype = "noteOn"
    /\ Has(event, "noteNumber")
    /\ event.noteNumber # 0

\* the event is a note-on that the forEach body does not return early from
IsTranscribed(event) ==
    /\ event.type = "channel"
    /\ Has(event, "subtype")
    /\ event.subtype = "noteOn"
    /\ Has(event, "noteNumber")
    /\ event.noteNumber # 0
    /\ Get(event, "velocity", 0) # 0

\* while (measures.length <= measureIndex) measures.push({index: length, beats: []})
grownMeasures(measures, measureIndex) ==
    measures \o emptyMeasures(Len(measures), measureIndex + 1 - Len(measures))

\* mutant: the measure index is taken from the beat count, not the tick count
placeNote_wrongMeasure(ts, target, event, abs) ==
    LET measureIndex == abs \div ticksPerBeat
        beatIndex == (abs % ticksPerMeasure) \div ticksPerBeat
        measures == grownMeasures(ts[target].measures, measureIndex)
        mapped == mapMidiToStringFret(event.noteNumber, defaultTuningForTrack(ts[target]))
        beat == [start |-> beatIndex,
                 notes |-> <<[type |-> "note", string |-> mapped.string, fret |-> mapped.fret,
                              duration |-> [numerator |-> 1, denominator |-> 4,
                                            dotted |-> FALSE],
                              velocity |-> Get(event, "velocity", 90),
                              midiPitch |-> event.noteNumber]>>]
    IN  [ts EXCEPT ![target].measures =
            [measures EXCEPT ![measureIndex + 1].beats = Append(@, beat)]]

\* mutant: the beat index is not reduced to the measure
placeNote_absoluteBeat(ts, target, event, abs) ==
    LET measureIndex == abs \div ticksPerMeasure
        beatIndex == abs \div ticksPerBeat
        measures == grownMeasures(ts[target].measures, measureIndex)
        mapped == mapMidiToStringFret(event.noteNumber, defaultTuningForTrack(ts[target]))
        beat == [start |-> beatIndex,
                 notes |-> <<[type |-> "note", string |-> mapped.string, fret |-> mapped.fret,
                              duration |-> [numerator |-> 1, denominator |-> 4,
                                            dotted |-> FALSE],
                              velocity |-> Get(event, "velocity", 90),
                              midiPitch |-> event.noteNumber]>>]
    IN  [ts EXCEPT ![target].measures =
            [measures EXCEPT ![measureIndex + 1].beats = Append(@, beat)]]

\* the body of the event loop for a note-on that is transcribed at tick abs
placeNote(ts, target, event, abs) ==
    LET measureIndex == abs \div ticksPerMeasure
        beatIndex == (abs % ticksPerMeasure) \div ticksPerBeat
        measures == grownMeasures(ts[target].measures, measureIndex)
        mapped == mapMidiToStringFret(event.noteNumber, defaultTuningForTrack(ts[target]))
        beat == [start |-> beatIndex,
                 notes |-> <<[type |-> "note", string |-> mapped.string, fret |-> mapped.fret,
                              duration |-> [numerator |-> 1, denominator |-> 4,
                                            dotted |-> FALSE],
                              velocity |-> Get(event, "velocity", 90),
                              midiPitch |-> event.noteNumber]>>]
    IN  [ts EXCEPT ![target].measures =
            [measures EXCEPT ![measureIndex + 1].beats = Append(@, beat)]]

\* ---- the transcriber reading a stream ----
MaxSourceTracks == 4

MaxEvents == 3

MidiHeaders == {[format |-> 1, ticksPerBeat |-> 2], [format |-> 1]}

\* delta times: none, one tick, one beat, three measures
DeltaTimes == {0, 1, ticksPerBeat, 3 * ticksPerMeasure}

MidiEvents ==
    {[deltaTime |-> d, type |-> "channel", subtype |-> "noteOn", noteNumber |-> 45,
      velocity |-> 100] : d \in DeltaTimes}
    \cup {[deltaTime |-> 0, type |-> "channel", subtype |-> "noteOn", noteNumber |-> 0,
           velocity |-> 100],
          [deltaTime |-> ticksPerBeat, type |-> "channel", subtype |-> "noteOn",
           noteNumber |-> 45, velocity |-> 0],
          [deltaTime |-> 0, type |-> "channel", subtype |-> "noteOn", noteNumber |-> 45],
          [deltaTime |-> ticksPerBeat, type |-> "channel", subtype |-> "noteOn",
           noteNumber |-> 127, velocity |-> 127],
          [deltaTime |-> 0, type |-> "channel", subtype |-> "noteOff", noteNumber |-> 45,
           velocity |-> 0],
          [deltaTime |-> ticksPerBeat, type |-> "channel", subtype |-> "noteOff",
           noteNumber |-> 45, velocity |-> 0],
          [deltaTime |-> ticksPerBeat, type |-> "meta", subtype |-> "setTempo"]}

NoNote == [target |-> 0, event |-> <<>>, measuresBefore |-> 0, beatsBefore |-> 0]

NoSong == <<>>

NoEvent == <<>>

MidiInit ==
    /\ header \in MidiHeaders
    /\ trackIndex = 0
    /\ absolute = 0
    /\ tracks = MidiDestinationTracks
    /\ deltas = <<>>
    /\ eventCount = 0
    /\ lastNote = NoNote
    /\ midiResult = NoSong
    /\ midiPc = "reading"
    /\ lastEvent = NoEvent
    /\ tracksBefore = MidiDestinationTracks

MidiIdle ==
    /\ header = [format |-> 1]
    /\ trackIndex = 0
    /\ absolute = 0
    /\ tracks = MidiDestinationTracks
    /\ deltas = <<>>
    /\ eventCount = 0
    /\ lastNote = NoNote
    /\ midiResult = NoSong
    /\ midiPc = "idle"
    /\ lastEvent = NoEvent
    /\ tracksBefore = MidiDestinationTracks

\* the outer forEach moves to the next source track: absolute starts at 0
MidiNextTrack ==
    /\ midiPc = "reading"
    /\ trackIndex < MaxSourceTracks
    /\ trackIndex' = trackIndex + 1
    /\ absolute' = 0
    /\ deltas' = <<>>
    /\ lastNote' = NoNote
    /\ lastEvent' = NoEvent
    /\ tracksBefore' = tracks
    /\ UNCHANGED <<header, tracks, eventCount, midiResult, midiPc>>

\* an event of the first source track: slice(1) never reads it
MidiSkippedEvent(event) ==
    /\ midiPc = "reading"
    /\ trackIndex = 0
    /\ eventCount < MaxEvents
    /\ eventCount' = eventCount + 1
    /\ deltas' = Append(deltas, event.deltaTime)
    /\ lastNote' = NoNote
    /\ lastEvent' = event
    /\ tracksBefore' = tracks
    /\ UNCHANGED <<header, trackIndex, absolute, tracks, midiResult, midiPc>>

\* one pass of the inner forEach
MidiEvent(event) ==
    /\ midiPc = "reading"
    /\ trackIndex >= 1
    /\ eventCount < MaxEvents
    /\ eventCount' = eventCount + 1
    /\ deltas' = Append(deltas, event.deltaTime)
    /\ absolute' = absolute + event.deltaTime
    /\ IF IsTranscribed(event)
       THEN /\ tracks' = placeNote(tracks, TargetOf(trackIndex), event, absolute')
            /\ lastNote' =
                  [target |-> TargetOf(trackIndex), event |-> event,
                   measuresBefore |-> Len(tracks[TargetOf(trackIndex)].measures),
                   beatsBefore |->
                      LET ms == tracks[TargetOf(trackIndex)].measures
                          mi == absolute' \div ticksPerMeasure
                      IN  IF mi + 1 <= Len(ms) THEN Len(ms[mi + 1].beats) ELSE 0]
       ELSE /\ tracks' = tracks
            /\ lastNote' = NoNote
    /\ lastEvent' = event
    /\ tracksBefore' = tracks
    /\ UNCHANGED <<header, trackIndex, midiResult, midiPc>>

\* return { ...baseSong, tracks }
MidiReturn ==
    /\ midiPc = "reading"
    /\ midiResult' = [createEmptySong EXCEPT !.tracks = tracks]
    /\ midiPc' = "returned"
    /\ UNCHANGED <<header, trackIndex, absolute, tracks, deltas, eventCount, lastNote,
                   lastEvent, tracksBefore>>

(***************************************************************************)
(* Text and the rule-based extractors of the chat route.  A message is a    *)
(* sequence of one-character strings; a regular expression is matched the   *)
(* way the JavaScript engine matches it: leftmost start first, then the     *)
(* alternatives of each greedy or optional part in backtracking order.      *)
(* An optional result (T | undefined) is a sequence of no or one element.   *)
(***************************************************************************)
UpperCase ==
    <<"A", "B", "C", "D", "E", "F", "G", "H", "I", "J", "K", "L", "M", "N", "O", "P", "Q",
      "R", "S", "T", "U", "V", "W", "X", "Y", "Z">>

LowerCase ==
    <<"a", "b", "c", "d", "e", "f", "g", "h", "i", "j", "k", "l", "m", "n", "o", "p", "q",
      "r", "s", "t", "u", "v", "w", "x", "y", "z">>

Digits == <<"0", "1", "2", "3", "4", "5", "6", "7", "8", "9">>

Range(q) == {q[i] : i \in DOMAIN q}

ToLower(c) ==
    IF c \in Range(UpperCase)
    THEN LowerCase[CHOOSE i \in DOMAIN UpperCase : UpperCase[i] = c]
    ELSE c

IsDigit(c) == c \in Range(Digits)

DigitValue(c) == (CHOOSE i \in DOMAIN Digits : Digits[i] = c) - 1

IsSpace(c) == c \in {" ", "\n", "\t", "\r"}

\* \w
IsWordChar(c) == c \in Range(UpperCase) \cup Range(LowerCase) \cup Range(Digits) \cup {"_"}

\* the characters of msg from position i (1-based) through position j
Slice(msg, i, j) == [k \in 1..(j - i + 1) |-> msg[i + k - 1]]

\* the literal lit (lower case) stands at position i of msg, ignoring case
LitAt(msg, i, lit) ==
    /\ i >= 1
    /\ i + Len(lit) - 1 <= Len(msg)
    /\ \A k \in 1..Len(lit) : ToLower(msg[i + k - 1]) = lit[k]

\* the literal lit stands at position i of msg, case respected
ExactAt(msg, i, lit) ==
    /\ i >= 1
    /\ i + Len(lit) - 1 <= Len(msg)
    /\ \A k \in 1..Len(lit) : msg[i + k - 1] = lit[k]

\* the position after the longest run of white space that starts at i
RECURSIVE SkipSpaces(_, _)
SkipSpaces(msg, i) ==
    IF i <= Len(msg) /\ IsSpace(msg[i]) THEN SkipSpaces(msg, i + 1) ELSE i

\* \b between position i - 1 and position i
WordBoundaryAt(msg, i) ==
    LET before == i - 1 >= 1 /\ i - 1 <= Len(msg) /\ IsWordChar(msg[i - 1])
        after == i >= 1 /\ i <= Len(msg) /\ IsWordChar(msg[i])
    IN  before # after

Least(S) == CHOOSE i \in S : \A j \in S : i <= j

\* message.trim()
RECURSIVE TrimEnd(_)
TrimEnd(msg) ==
    IF msg # <<>> /\ IsSpace(msg[Len(msg)]) THEN TrimEnd(SubSeq(msg, 1, Len(msg) - 1)) ELSE msg

Trim(msg) == TrimEnd(Slice(msg, SkipSpaces(msg, 1), Len(msg)))

\* Number(text) for a run of digits
RECURSIVE NumberOf(_)
NumberOf(ds) ==
    IF ds = <<>> THEN 0 ELSE NumberOf(SubSeq(ds, 1, Len(ds) - 1)) * 10 + DigitValue(ds[Len(ds)])

\* /(\d{2,3})\s*bpm/i tried at start i with n digits: does it match?
TempoMatchAt(msg, i, n) ==
    /\ i + n - 1 <= Len(msg)
    /\ \A k \in i..(i + n - 1) : IsDigit(msg[k])
    /\ LitAt(msg, SkipSpaces(msg, i + n), <<"b", "p", "m">>)

\* parseTempo: the number in front of "bpm", or undefined
parseTempo(msg) ==
    LET starts == {i \in 1..Len(msg) : TempoMatchAt(msg, i, 3) \/ TempoMatchAt(msg, i, 2)}
    IN  IF starts = {} THEN <<>>
        ELSE LET i == Least(starts)
                 n == IF TempoMatchAt(msg, i, 3) THEN 3 ELSE 2
             IN  <<NumberOf(Slice(msg, i, i + n - 1))>>

\* the ways ([A-G](#|b)?\s?(major|minor)?) can match at position g, in the
\* order the engine tries them, each as the position after the group; a way
\* counts only if \b holds after it
KeyGroupEnds(msg, g) ==
    LET letter == g <= Len(msg) /\ ToLower(msg[g]) \in {"a", "b", "c", "d", "e", "f", "g"}
        accidental(i) == i <= Len(msg) /\ ToLower(msg[i]) \in {"#", "b"}
        space(i) == i <= Len(msg) /\ IsSpace(msg[i])
        mode(i) ==
            IF LitAt(msg, i, <<"m", "a", "j", "o", "r">>) THEN 5
            ELSE IF LitAt(msg, i, <<"m", "i", "n", "o", "r">>) THEN 5
            ELSE 0
        afterAcc(useAcc) == IF useAcc THEN g + 2 ELSE g + 1
        afterSpace(useAcc, useSpace) ==
            IF useSpace THEN afterAcc(useAcc) + 1 ELSE afterAcc(useAcc)
        way(useAcc, useSpace, useMode) ==
            IF /\ letter
               /\ (useAcc => accidental(g + 1))
               /\ (useSpace => space(afterAcc(useAcc)))
               /\ (useMode => mode(afterSpace(useAcc, useSpace)) > 0)
               /\ WordBoundaryAt(msg, afterSpace(useAcc, useSpace)
                                       + (IF useMode THEN 5 ELSE 0))
            THEN <<afterSpace(useAcc, useSpace) + (IF useMode THEN 5 ELSE 0)>>
            ELSE <<>>
    IN  way(TRUE, TRUE, TRUE) \o way(TRUE, TRUE, FALSE) \o way(TRUE, FALSE, TRUE)
        \o way(TRUE, FALSE, FALSE) \o way(FALSE, TRUE, TRUE) \o way(FALSE, TRUE, FALSE)
        \o way(FALSE, FALSE, TRUE) \o way(FALSE, FALSE, FALSE)

\* /\bkey\s+of\s+(...)\b/i tried at start i: the position of the group, or 0
KeyGroupStart(msg, i) ==
    IF /\ WordBoundaryAt(msg, i)
       /\ LitAt(msg, i, <<"k", "e", "y">>)
       /\ SkipSpaces(msg, i + 3) > i + 3
       /\ LitAt(msg, SkipSpaces(msg, i + 3), <<"o", "f">>)
       /\ SkipSpaces(msg, SkipSpaces(msg, i + 3) + 2) > SkipSpaces(msg, i + 3) + 2
    THEN SkipSpaces(msg, SkipSpaces(msg, i + 3) + 2)
    ELSE 0

\* .replace(/\s+/g, " ") on the group, which holds at most one white-space
\* character and never two in a row
SpacesToBlank(text) == [k \in DOMAIN text |-> IF IsSpace(text[k]) THEN " " ELSE text[k]]

\* parseKey: the key named after "key of", or undefined
parseKey(msg) ==
    LET starts ==
            {i \in 1..Len(msg) :
                KeyGroupStart(msg, i) # 0 /\ KeyGroupEnds(msg, KeyGroupStart(msg, i)) # <<>>}
    IN  IF starts = {} THEN <<>>
        ELSE LET g == KeyGroupStart(msg, Least(starts))
                 e == KeyGroupEnds(msg, g)[1]
             IN  <<Trim(SpacesToBlank(Slice(msg, g, e - 1)))>>

\* /called\s+<q>([^<q>]+)<q>/i tried at start i: the quoted text, or nothing
QuotedAfterCalled(msg, i, q) ==
    LET open == SkipSpaces(msg, i + 6)
        closes == {j \in (open + 2)..Len(msg) : msg[j] = q}
    IN  IF /\ LitAt(msg, i, <<"c", "a", "l", "l", "e", "d">>)
           /\ open > i + 6
           /\ open <= Len(msg)
           /\ msg[open] = q
           /\ open + 1 <= Len(msg)
           /\ msg[open + 1] # q
           /\ closes # {}
        THEN <<Slice(msg, open + 1, Least(closes) - 1)>>
        ELSE <<>>

FirstQuoted(msg, q) ==
    LET starts == {i \in 1..Len(msg) : QuotedAfterCalled(msg, i, q) # <<>>}
    IN  IF starts = {} THEN <<>> ELSE QuotedAfterCalled(msg, Least(starts), q)

\* parseTitle: the text quoted after "called", single quotes tried first
parseTitle(msg) ==
    IF FirstQuoted(msg, "'") # <<>> THEN FirstQuoted(msg, "'") ELSE FirstQuoted(msg, "\"")

\* text.includes(lit) on the lower-cased message
Includes(msg, lit) == \E i \in 1..Len(msg) : LitAt(msg, i, lit)

hasInstrument(msg, instrument) == Includes(msg, instrument)

\* /generate\s*\.?gp5|export|generate file|create gp5/i.test(message)
ExportIntent(msg) ==
    \/ \E i \in 1..Len(msg) :
          /\ LitAt(msg, i, <<"g", "e", "n", "e", "r", "a", "t", "e">>)
          /\ LET j == SkipSpaces(msg, i + 8)
             IN  \/ LitAt(msg, j, <<".", "g", "p", "5">>)
                 \/ LitAt(msg, j, <<"g", "p", "5">>)
    \/ Includes(msg, <<"e", "x", "p", "o", "r", "t">>)
    \/ Includes(msg, <<"g", "e", "n", "e", "r", "a", "t", "e", " ", "f", "i", "l", "e">>)
    \/ Includes(msg, <<"c", "r", "e", "a", "t", "e", " ", "g", "p", "5">>)

(***************************************************************************)
(* GP5 export route (POST /api/export/gp5) in its two revisions: route.ts   *)
(* answers 500 when GP5_WRITER_URL is not set, the other revision falls     *)
(* back to a local writer.  writerRequests are the bodies of the fetch      *)
(* calls made to the writer's /write endpoint, in order.                    *)
(***************************************************************************)
ExportRevisions == {"route.ts", "part_000"}

MaxExportTracks == 1

\* request bodies: documents of few tracks, and two that fail validation
ExportBodies ==
    {[createEmptySong EXCEPT !.tracks = ts] : ts \in SeqsUpTo(OpsTracks, MaxExportTracks)}
    \cup {[createEmptySong EXCEPT !.metadata.tempo = MaxTempo + 1],
          Without(createEmptySong, "tracks")}

NoResponse == [status |-> 0]

ExportInit ==
    /\ exportRevision \in ExportRevisions
    /\ writerUrlSet \in BOOLEAN
    /\ exportBody \in ExportBodies
    /\ writerRequests = <<>>
    /\ exportResponse = NoResponse
    /\ exportPc = "request"

ExportIdle ==
    /\ exportRevision = "route.ts"
    /\ writerUrlSet = FALSE
    /\ exportBody = createEmptySong
    /\ writerRequests = <<>>
    /\ exportResponse = NoResponse
    /\ exportPc = "idle"

\* POST up to the await of fetch: the configuration test (route.ts only),
\* validateSong(body), whose throw the framework answers with 500, and the
\* request to the writer with the validated document as its body
ExportPost ==
    /\ exportPc = "request"
    /\ IF exportRevision = "route.ts" /\ ~writerUrlSet
       THEN /\ exportResponse' = [status |-> 500]
            /\ exportPc' = "done"
            /\ UNCHANGED writerRequests
       ELSE IF ~validateSong(exportBody).success
       THEN /\ exportResponse' = [status |-> 500]
            /\ exportPc' = "done"
            /\ UNCHANGED writerRequests
       ELSE /\ writerRequests' = Append(writerRequests, validateSong(exportBody).data)
            /\ exportPc' = "awaitWriter"
            /\ UNCHANGED exportResponse
    /\ UNCHANGED <<exportRevision, writerUrlSet, exportBody>>

\* the writer answers: the file on response.ok, 502 otherwise
WriterResponds(ok) ==
    /\ exportPc = "awaitWriter"
    /\ exportResponse' = [status |-> IF ok THEN 200 ELSE 502]
    /\ exportPc' = "done"
    /\ UNCHANGED <<exportRevision, writerUrlSet, exportBody, writerRequests>>

\* fetch rejects (writer unreachable): nothing catches it
WriterUnreachable ==
    /\ exportPc = "awaitWriter"
    /\ exportResponse' = [status |-> 500]
    /\ exportPc' = "done"
    /\ UNCHANGED <<exportRevision, writerUrlSet, exportBody, writerRequests>>

(***************************************************************************)
(* Chat route (POST /api/chat) in its two revisions, "current" and          *)
(* "earlier".  A function that can throw returns Thrown instead of a        *)
(* ChatResponse.  A completion of the agent is its content: text is the     *)
(* trimmed content string, parsed (present when JSON.parse succeeds) the    *)
(* object it denotes.                                                       *)
(***************************************************************************)
ChatRevisions == {"current", "earlier"}

Thrown == [thrown |-> TRUE]

Returned(reply, followUps, s) ==
    [thrown |-> FALSE, reply |-> reply, followUps |-> followUps, song |-> s]

\* buildDraftResponse: SongSchema.parse throws when the document is invalid
buildDraftResponse(base, draftText) ==
    LET parsed == safeParse(Spread(base, [draftText |-> draftText, readyForExport |-> FALSE]))
    IN  IF parsed.success THEN Returned(draftText, <<>>, parsed.data) ELSE Thrown

KeyDMinor == <<"D", " ", "m", "i", "n", "o", "r">>

LocalDraftTempo == 96

LocalDraftBody ==
    "\n\n[INTRO]\nChugging guitars build tension, lead guitar teases a motif.\n\n[VERSE]\nShort, clipped lines about the theme you specified.\n\n[CHORUS]\nRepeat the core hook; keep it big and anthemic.\n\n[BRIDGE]\nHalf-time breakdown before final chorus."

\* buildLocalDraft (current revision): the deterministic draft
buildLocalDraft(msg, base) ==
    LET title == IF parseTitle(msg) # <<>> THEN parseTitle(msg)[1]
                 ELSE Get(base.metadata, "title", Untitled)
        tempo == IF parseTempo(msg) # <<>> THEN parseTempo(msg)[1]
                 ELSE Get(base.metadata, "tempo", LocalDraftTempo)
        key == IF parseKey(msg) # <<>> THEN parseKey(msg)[1]
               ELSE Get(base.metadata, "keySignature", KeyDMinor)
        s == Spread(base,
                    [metadata |-> Spread(base.metadata,
                                         [title |-> title, tempo |-> tempo,
                                          keySignature |-> key]),
                     tracks |-> IF Len(base.tracks) # 0 THEN base.tracks
                                ELSE <<createDefaultTrack>>])
        draftText ==
            (IF Get(base, "draftText", <<>>) # <<>> THEN base.draftText \o <<"\n\n">>
             ELSE <<>>)
            \o <<"TITLE: ">> \o title \o <<"\nTempo: ", ToString(tempo), " BPM\nKey: ">>
            \o key \o <<LocalDraftBody>>
    IN  buildDraftResponse(s, draftText)

\* applyMessageToSong (earlier revision), step by step.
\* if (tempo) updated = updateMetadata(updated, { tempo })
withTempo(s, tempo) ==
    IF tempo # <<>> /\ tempo[1] # 0 THEN updateMetadata(s, [tempo |-> tempo[1]]) ELSE s

\* if (key) updated = updateMetadata(updated, { keySignature: key })
withKey(s, key) ==
    IF key # <<>> /\ key[1] # <<>> THEN updateMetadata(s, [keySignature |-> key[1]]) ELSE s

withDrums(s, msg) ==
    IF /\ hasInstrument(msg, <<"d", "r", "u", "m">>)
       /\ ~\E i \in DOMAIN s.tracks : Get(s.tracks[i], "isDrums", FALSE)
    THEN addTrack(s, buildTrack("drums", "Drums", "Drum Kit", TRUE))
    ELSE s

withBass(s, msg) ==
    IF /\ hasInstrument(msg, <<"b", "a", "s", "s">>)
       /\ ~\E i \in DOMAIN s.tracks : s.tracks[i].instrument = "Bass"
    THEN addTrack(s, buildTrack("bass", "Bass", "Bass", FALSE))
    ELSE s

withGuitar(s, msg) ==
    IF /\ hasInstrument(msg, <<"g", "u", "i", "t", "a", "r">>)
       /\ ~\E i \in DOMAIN s.tracks : s.tracks[i].instrument = "Guitar"
    THEN addTrack(s, buildTrack("guitar", "Guitar", "Guitar", FALSE))
    ELSE s

applyMessageFollowUps(updated, tempo, key) ==
    (IF Len(updated.tracks) = 0
     THEN <<"What instruments should the song include (e.g. guitar, bass, drums)?">>
     ELSE <<>>)
    \o (IF tempo = <<>> \/ tempo[1] = 0
        THEN <<"What tempo should we use? You can reply like '120 bpm'.">>
        ELSE <<>>)
    \o (IF key = <<>> \/ key[1] = <<>>
        THEN <<"What key do you want the song in?">>
        ELSE <<>>)

applyMessageReply(readyForExport) ==
    IF readyForExport
    THEN <<"I can generate the GP5 file now. Press 'Generate .GP5 File' when you're ready.">>
    ELSE <<"Got it. I updated the song settings and track list based on your request.">>

\* return { song: { ...updated, readyForExport }, reply, followUps }
applyMessageResult(updated, tempo, key, readyForExport) ==
    Returned(applyMessageReply(readyForExport),
             applyMessageFollowUps(updated, tempo, key),
             Spread(updated, [readyForExport |-> readyForExport]))

\* applyMessageToSong (earlier revision): the rule-based update; nothing in
\* it validates the document it returns
applyMessageToSong(s, msg) ==
    applyMessageResult(
        ensureMeasureCounts(
            withGuitar(
                withBass(
                    withDrums(withKey(withTempo(s, parseTempo(msg)), parseKey(msg)), msg),
                    msg),
                msg)),
        parseTempo(msg),
        parseKey(msg),
        ExportIntent(msg) \/ Get(s, "readyForExport", FALSE))

\* ---- applyMessageToSong of the current revision and its checklist ----
\* buildChecklist: the six items in the order of the array, with done
buildChecklist(s) ==
    <<[id |-> "title", done |-> Get(s.metadata, "title", <<>>) # <<>>],
      [id |-> "tempo", done |-> Get(s.metadata, "tempo", 0) # 0],
      [id |-> "key", done |-> Get(s.metadata, "keySignature", <<>>) # <<>>],
      [id |-> "tracks", done |-> Len(s.tracks) > 0],
      [id |-> "measures",
       done |-> \E i \in DOMAIN s.tracks : Len(s.tracks[i].measures) > 0],
      [id |-> "beats",
       done |-> \E i \in DOMAIN s.tracks :
                   \E j \in DOMAIN s.tracks[i].measures :
                       Len(Get(s.tracks[i].measures[j], "beats", <<>>)) > 0]>>

\* checklist.filter((item) => !item.done)
missing(s) == SelectSeq(buildChecklist(s), LAMBDA item : ~item.done)

TracksQuestion == "Which instruments should I include (guitar, bass, drums, synth)?"

TempoQuestion == "What tempo should we use? You can reply like '140 bpm'."

KeyQuestion == "What key should the song be in?"

MeasuresQuestion == "How many measures should I draft to start?"

BeatsQuestion == "Should I add a basic beat pattern to the first measure?"

DefaultQuestion == "What should I add next?"

ChordsQuestion == "Should I generate chord progressions for the verse and chorus?"

\* the switch of nextChecklistPrompt
promptFor(id) ==
    CASE id = "tracks" -> TracksQuestion
      [] id = "tempo" -> TempoQuestion
      [] id = "key" -> KeyQuestion
      [] id = "measures" -> MeasuresQuestion
      [] id = "beats" -> BeatsQuestion
      [] OTHER -> DefaultQuestion

\* nextChecklistPrompt: no element for null
nextChecklistPrompt(s) == IF missing(s) = <<>> THEN <<>> ELSE <<promptFor(missing(s)[1].id)>>

\* checklist.missing.find((item) => item.id === id)
isMissing(s, id) == \E k \in DOMAIN missing(s) : missing(s)[k].id = id

\* if (title) updated = updateMetadata(updated, { title })
withTitle(s, title) ==
    IF title # <<>> /\ title[1] # <<>> THEN updateMetadata(s, [title |-> title[1]]) ELSE s

\* /chord/i.test(message)
wantsChords(msg) ==
    \/ Includes(msg, <<"c", "h", "o", "r", "d">>)

\* /create a measure|add a measure|new measure|create a bar|add a bar/i.test(message)
wantsMeasure(msg) ==
    \/ Includes(msg, <<"c", "r", "e", "a", "t", "e", " ", "a", " ", "m", "e", "a", "s",
                       "u", "r", "e">>)
    \/ Includes(msg, <<"a", "d", "d", " ", "a", " ", "m", "e", "a", "s", "u", "r", "e">>)
    \/ Includes(msg, <<"n", "e", "w", " ", "m", "e", "a", "s", "u", "r", "e">>)
    \/ Includes(msg, <<"c", "r", "e", "a", "t", "e", " ", "a", " ", "b", "a", "r">>)
    \/ Includes(msg, <<"a", "d", "d", " ", "a", " ", "b", "a", "r">>)

\* /add more|keep refining|keep going|expand|continue/i.test(message)
wantsMore(msg) ==
    \/ Includes(msg, <<"a", "d", "d", " ", "m", "o", "r", "e">>)
    \/ Includes(msg, <<"k", "e", "e", "p", " ", "r", "e", "f", "i", "n", "i", "n", "g">>)
    \/ Includes(msg, <<"k", "e", "e", "p", " ", "g", "o", "i", "n", "g">>)
    \/ Includes(msg, <<"e", "x", "p", "a", "n", "d">>)
    \/ Includes(msg, <<"c", "o", "n", "t", "i", "n", "u", "e">>)

\* every track gets one more default measure, numbered by its length
withAnotherMeasure(s, msg) ==
    IF wantsMeasure(msg) \/ wantsMore(msg)
    THEN Spread(s, [tracks |->
                       [i \in DOMAIN s.tracks |->
                           Spread(s.tracks[i],
                                  [measures |->
                                      Append(s.tracks[i].measures,
                                             createDefaultMeasure(
                                                 Len(s.tracks[i].measures)))])]])
    ELSE s

ResolverChords ==
    [Chorus |-> <<"D5", "F5", "G5", "Bb5">>, Verse |-> <<"D5", "D5", "F5", "G5">>]

\* { ...(updated.chordsBySection ?? {}), Chorus: [...], Verse: [...] }
withChords(s, msg) ==
    IF wantsChords(msg)
    THEN Spread(s, [chordsBySection |->
                       IF Has(s, "chordsBySection")
                       THEN Spread(s.chordsBySection, ResolverChords)
                       ELSE ResolverChords])
    ELSE s

currentFollowUps(updated) ==
    (IF isMissing(updated, "tracks") THEN <<TracksQuestion>> ELSE <<>>)
    \o (IF isMissing(updated, "tempo") THEN <<TempoQuestion>> ELSE <<>>)
    \o (IF isMissing(updated, "key") THEN <<KeyQuestion>> ELSE <<>>)
    \o (IF isMissing(updated, "measures") THEN <<MeasuresQuestion>> ELSE <<>>)
    \o (IF ~Has(updated, "chordsBySection") THEN <<ChordsQuestion>> ELSE <<>>)

\* readyForExport ? ... : guidedPrompt ?? "Draft updated. ..."
currentReply(updated, readyForExport) ==
    IF readyForExport
    THEN <<"I can generate the GP5 file now. Press 'Generate .GP5 File' when you're ready.">>
    ELSE IF nextChecklistPrompt(updated) # <<>>
    THEN nextChecklistPrompt(updated)
    ELSE <<"Draft updated. Tell me to add chords, riffs, or more measures.">>

\* return { song: { ...updated, readyForExport }, reply, followUps }
currentResult(updated, readyForExport) ==
    Returned(currentReply(updated, readyForExport),
             currentFollowUps(updated),
             Spread(updated, [readyForExport |-> readyForExport]))

\* the updates of applyMessageToSong up to the checklist, in its order
currentUpdated(s, msg) ==
    withChords(
        withAnotherMeasure(
            ensureMeasureCounts(
                withGuitar(
                    withBass(
                        withDrums(
                            withKey(
                                withTitle(withTempo(s, parseTempo(msg)), parseTitle(msg)),
                                parseKey(msg)),
                            msg),
                        msg),
                    msg)),
            msg),
        msg)

\* mutant: every instruction makes the document ready for export
applyMessageToSongCurrent_alwaysReady(s, msg) == currentResult(currentUpdated(s, msg), TRUE)

\* applyMessageToSong (current revision)
applyMessageToSongCurrent(s, msg) ==
    currentResult(currentUpdated(s, msg), ExportIntent(msg) \/ Get(s, "readyForExport", FALSE))

FormattingErrorReply ==
    <<"I hit an AI formatting error, so I used a simple fallback. Try again or refine your request.">>

\* what POST does when the agent is absent (afterFailure = FALSE) or when
\* callOpenAI threw (afterFailure = TRUE)
Fallback(rev, msg, base, afterFailure) ==
    IF rev = "current" THEN buildLocalDraft(msg, base)
    ELSE IF afterFailure
    THEN [applyMessageToSong(base, msg) EXCEPT !.reply = FormattingErrorReply]
    ELSE applyMessageToSong(base, msg)

\* sanitizeSections: sections whose startMeasure and length are numbers,
\* an empty name replaced by "Section <position>"
sanitizeSections(sections) ==
    LET finite == SelectSeq(sections,
                            LAMBDA section : Has(section, "startMeasure") /\ Has(section, "length"))
    IN  [i \in DOMAIN finite |->
            Spread(finite[i],
                   [name |-> IF Get(finite[i], "name", "") # "" THEN finite[i].name
                             ELSE "Section " \o ToString(i)])]

\* sanitizeMeasures: the current revision fills in index and beats, the
\* earlier one drops the measures that lack either
sanitizeMeasures(rev, measures) ==
    IF rev = "current"
    THEN [i \in DOMAIN measures |->
            Spread(measures[i],
                   [index |-> Get(measures[i], "index", i - 1),
                    beats |-> Get(measures[i], "beats", <<>>)])]
    ELSE SelectSeq(measures, LAMBDA measure : Has(measure, "index") /\ Has(measure, "beats"))

sanitizeTracks(rev, ts) ==
    [i \in DOMAIN ts |->
        Spread(ts[i],
               [id |-> IF Get(ts[i], "id", "") # "" THEN ts[i].id
                       ELSE "track-" \o ToString(i),
                measures |-> sanitizeMeasures(rev, Get(ts[i], "measures", <<>>))])]

\* normalizeSong: { ...fallback, ...song, sections, tracks }
normalizeSong(rev, s, fallback) ==
    Spread(Spread(fallback, s),
           [sections |-> sanitizeSections(Get(s, "sections", <<>>)),
            tracks |-> sanitizeTracks(rev, Get(s, "tracks", fallback.tracks))])

\* SongSchema.safeParse(parsed.song) fails; an absent song fails as well
NeedsRepair(parsed) == ~Has(parsed, "song") \/ ~safeParse(parsed.song).success

UpdatedReply == <<"Updated the song.">>

\* mutant: the song of the completion is returned without SongSchema.parse
callOpenAIFinish_ungated(rev, parsed, content, base) ==
    IF ~Has(parsed, "song")
    THEN IF rev = "current"
         THEN buildDraftResponse(base, Get(parsed, "reply", content.text))
         ELSE Thrown
    ELSE Returned(Get(parsed, "reply", UpdatedReply), Get(parsed, "followUps", <<>>),
                  Spread(parsed.song,
                         [draftText |-> Get(parsed.song, "draftText",
                                            Get(parsed, "reply", UpdatedReply))]))

\* callOpenAI from `if (!parsed.song)` to its return, for the object parsed
\* and the content of the first completion
callOpenAIFinish(rev, parsed, content, base) ==
    IF ~Has(parsed, "song")
    THEN IF rev = "current"
         THEN buildDraftResponse(base, Get(parsed, "reply", content.text))
         ELSE Thrown
    ELSE LET finalSong == safeParse(parsed.song)
             reply == Get(parsed, "reply", UpdatedReply)
             hydratedSong ==
                 Spread(finalSong.data,
                        IF Has(parsed.song, "chordsBySection")
                        THEN [draftText |-> Get(parsed.song, "draftText", reply),
                              chordsBySection |-> parsed.song.chordsBySection]
                        ELSE [draftText |-> Get(parsed.song, "draftText", reply)])
         IN  IF ~finalSong.success THEN Thrown
             ELSE IF ~safeParse(hydratedSong).success THEN Thrown
             ELSE Returned(reply, Get(parsed, "followUps", <<>>), safeParse(hydratedSong).data)

\* callOpenAI from the first completion to the repair request or its return
callOpenAIFirst(rev, content, base) ==
    IF content.text = <<>> THEN Thrown
    ELSE IF ~Has(content, "parsed")
    THEN IF rev = "current" THEN buildDraftResponse(base, content.text) ELSE Thrown
    ELSE callOpenAIFinish(rev, content.parsed, content, base)

\* callOpenAI from the repair completion to its return
callOpenAIRetry(rev, content, retry, base) ==
    IF retry.text = <<>> \/ ~Has(retry, "parsed")
    THEN IF rev = "current" THEN buildDraftResponse(base, content.text) ELSE Thrown
    ELSE callOpenAIFinish(rev, retry.parsed, content, base)

\* the end of POST: the JSON response for what callOpenAI or the fallback
\* produced; a throw reaches the outer catch
Respond(rev, response, base) ==
    IF response.thrown
    THEN [status |-> 500]
    ELSE [status |-> 200, reply |-> response.reply, followUps |-> response.followUps,
          song |-> normalizeSong(rev, response.song, base)]

\* POST after callOpenAI returned or threw
Settle(rev, outcome, msg, base) ==
    IF outcome.thrown THEN Respond(rev, Fallback(rev, msg, base, TRUE), base)
    ELSE Respond(rev, outcome, base)

\* ---- the requests and the agent's completions ----
ChatMessages ==
    {<<"1", "4", "0", " ", "b", "p", "m", " ", "i", "n", " ", "t", "h", "e", " ", "k", "e",
       "y", " ", "o", "f", " ", "D", " ", "m", "i", "n", "o", "r", " ", "w", "i", "t", "h",
       " ", "g", "u", "i", "t", "a", "r", " ", "a", "n", "d", " ", "d", "r", "u", "m", "s">>,
     <<"g", "e", "n", "e", "r", "a", "t", "e", " ", "t", "h", "e", " ", "g", "p", "5", " ",
       "f", "i", "l", "e">>,
     <<"p", "l", "e", "a", "s", "e", " ", "e", "x", "p", "o", "r", "t", " ">>,
     <<"9", "9", "9", " ", "b", "p", "m">>,
     <<"a", "d", "d", " ", "b", "a", "s", "s">>,
     <<"a", " ", "s", "o", "n", "g", " ", "c", "a", "l", "l", "e", "d", " ", "'", "X", "'">>,
     <<" ", " ">>}

OldDraft == <<"Verse: old draft">>

\* documents sent as body.song: bare, ready for export, with a track and a
\* draft, relying on the schema's defaults, and one that fails validation
PriorSongs ==
    {createEmptySong,
     Spread(createEmptySong, [readyForExport |-> TRUE]),
     Spread(createEmptySong, [tracks |-> <<createDefaultTrack>>, draftText |-> OldDraft]),
     [metadata |-> [tempo |-> 90], tracks |-> <<>>],
     [createEmptySong EXCEPT !.metadata.tempo = MaxTempo + 1]}

ChatBodies ==
    {[message |-> m] : m \in ChatMessages}
    \cup {[message |-> m, song |-> s] : m \in ChatMessages, s \in PriorSongs}
    \cup {[song |-> createEmptySong]}

AgentChords == [Chorus |-> <<"D5", "F5", "G5", "Bb5">>]

AgentSong ==
    [metadata |-> [title |-> <<"R", "i", "f", "f">>, tempo |-> 96, keySignature |-> KeyDMinor],
     sections |-> <<[name |-> "", startMeasure |-> 0, length |-> 1]>>,
     tracks |-> <<createDefaultTrack>>,
     draftText |-> <<"Verse: agent draft">>,
     chordsBySection |-> AgentChords,
     readyForExport |-> FALSE]

\* the song objects an agent's JSON can carry: complete, ready for export
\* without a draft, with a tempo out of range, without tracks (under a title
\* of its own, which tells it from the complete one)
AgentSongs ==
    [complete |-> AgentSong,
     ready |-> [metadata |-> [tempo |-> 96], tracks |-> <<>>, readyForExport |-> TRUE],
     badTempo |-> [AgentSong EXCEPT !.metadata.tempo = 500],
     noTracks |-> Without([AgentSong EXCEPT !.metadata.title = <<"B", "a", "r", "e">>],
                          "tracks")]

AgentReply == <<"Here is the song.">>

AgentContents ==
    {[text |-> <<>>],
     [text |-> <<"Here are some lyrics, not JSON">>],
     [text |-> <<"{reply, followUps, song: complete}">>,
      parsed |-> [reply |-> AgentReply, followUps |-> <<"Add a solo?">>,
                  song |-> AgentSongs.complete]],
     [text |-> <<"{song: ready}">>, parsed |-> [song |-> AgentSongs.ready]],
     [text |-> <<"{reply, song: badTempo}">>,
      parsed |-> [reply |-> AgentReply, song |-> AgentSongs.badTempo]],
     [text |-> <<"{reply, song: noTracks}">>,
      parsed |-> [reply |-> AgentReply, song |-> AgentSongs.noTracks]],
     [text |-> <<"{reply}">>, parsed |-> [reply |-> AgentReply]],
     [text |-> <<"{followUps}">>, parsed |-> [followUps |-> <<>>]]}

NoBody == [song |-> createEmptySong]

ChatInit ==
    /\ chatRevision \in ChatRevisions
    /\ apiKeySet \in BOOLEAN
    /\ chatBody \in ChatBodies
    /\ message = <<>>
    /\ baseSong = createEmptySong
    /\ agentCalls = 0
    /\ firstContent = <<>>
    /\ retryContent = <<>>
    /\ chatResponse = NoResponse
    /\ chatPc = "request"

ChatIdle ==
    /\ chatRevision = "current"
    /\ apiKeySet = FALSE
    /\ chatBody = NoBody
    /\ message = <<>>
    /\ baseSong = createEmptySong
    /\ agentCalls = 0
    /\ firstContent = <<>>
    /\ retryContent = <<>>
    /\ chatResponse = NoResponse
    /\ chatPc = "idle"

\* POST up to its first await: 400 for an empty message, 500 when body.song
\* fails validation, the whole turn when OPENAI_API_KEY is not set, and the
\* first request to the agent otherwise
ChatPost ==
    /\ chatPc = "request"
    /\ LET msg == Trim(Get(chatBody, "message", <<>>))
           hasSong == Has(chatBody, "song")
           base == IF hasSong THEN validateSong(chatBody.song).data ELSE createEmptySong
       IN  /\ message' = msg
           /\ IF msg = <<>>
              THEN /\ chatResponse' = [status |-> 400]
                   /\ chatPc' = "done"
                   /\ UNCHANGED <<baseSong, agentCalls>>
              ELSE IF hasSong /\ ~validateSong(chatBody.song).success
              THEN /\ chatResponse' = [status |-> 500]
                   /\ chatPc' = "done"
                   /\ UNCHANGED <<baseSong, agentCalls>>
              ELSE IF ~apiKeySet
              THEN /\ baseSong' = base
                   /\ chatResponse' =
                         Respond(chatRevision, Fallback(chatRevision, msg, base, FALSE), base)
                   /\ chatPc' = "done"
                   /\ UNCHANGED agentCalls
              ELSE /\ baseSong' = base
                   /\ agentCalls' = agentCalls + 1
                   /\ chatPc' = "awaitAgent"
                   /\ UNCHANGED chatResponse
    /\ UNCHANGED <<chatRevision, apiKeySet, chatBody, firstContent, retryContent>>

\* the first completion arrives: callOpenAI answers from it, or asks the
\* agent once more to repair the song that failed validation
AgentResponds(content) ==
    /\ chatPc = "awaitAgent"
    /\ firstContent' = <<content>>
    /\ IF content.text # <<>> /\ Has(content, "parsed") /\ NeedsRepair(content.parsed)
       THEN /\ agentCalls' = agentCalls + 1
            /\ chatPc' = "awaitRepair"
            /\ UNCHANGED chatResponse
       ELSE /\ chatResponse' =
                  Settle(chatRevision, callOpenAIFirst(chatRevision, content, baseSong),
                         message, baseSong)
            /\ chatPc' = "done"
            /\ UNCHANGED agentCalls
    /\ UNCHANGED <<chatRevision, apiKeySet, chatBody, message, baseSong, retryContent>>

\* the first request rejects (agent unreachable)
AgentFails ==
    /\ chatPc = "awaitAgent"
    /\ chatResponse' = Settle(chatRevision, Thrown, message, baseSong)
    /\ chatPc' = "done"
    /\ UNCHANGED <<chatRevision, apiKeySet, chatBody, message, baseSong, agentCalls,
                   firstContent, retryContent>>

\* the 15 s timer of Promise.race fires first (current revision only)
AgentTimesOut ==
    /\ chatPc = "awaitAgent"
    /\ chatRevision = "current"
    /\ chatResponse' = Settle(chatRevision, Thrown, message, baseSong)
    /\ chatPc' = "done"
    /\ UNCHANGED <<chatRevision, apiKeySet, chatBody, message, baseSong, agentCalls,
                   firstContent, retryContent>>

\* the repair completion arrives
RepairResponds(retry) ==
    /\ chatPc = "awaitRepair"
    /\ retryContent' = <<retry>>
    /\ chatResponse' =
          Settle(chatRevision, callOpenAIRetry(chatRevision, firstContent[1], retry, baseSong),
                 message, baseSong)
    /\ chatPc' = "done"
    /\ UNCHANGED <<chatRevision, apiKeySet, chatBody, message, baseSong, agentCalls,
                   firstContent>>

\* the repair request rejects
RepairFails ==
    /\ chatPc = "awaitRepair"
    /\ chatResponse' = Settle(chatRevision, Thrown, message, baseSong)
    /\ chatPc' = "done"
    /\ UNCHANGED <<chatRevision, apiKeySet, chatBody, message, baseSong, agentCalls,
                   firstContent, retryContent>>

\* ---- the rule-based resolver called on its own ----
ScenarioInstruction ==
    <<"1", "4", "0", " ", "b", "p", "m", " ", "s", "o", "n", "g", " ", "i", "n", " ",
      "t", "h", "e", " ", "k", "e", "y", " ", "o", "f", " ", "D", " ", "m", "i", "n",
      "o", "r", " ", "w", "i", "t", "h", " ", "g", "u", "i", "t", "a", "r", " ", "a",
      "n", "d", " ", "d", "r", "u", "m", "s">>

GenerateInstruction ==
    <<"g", "e", "n", "e", "r", "a", "t", "e", " ", "t", "h", "e", " ", "g", "p", "5",
      " ", "f", "i", "l", "e">>

ResolverMessages ==
    {ScenarioInstruction,
     GenerateInstruction,
     <<"g", "e", "n", "e", "r", "a", "t", "e", " ", "g", "p", "5">>,
     <<"p", "l", "e", "a", "s", "e", " ", "e", "x", "p", "o", "r", "t">>,
     <<"a", "d", "d", " ", "a", " ", "m", "e", "a", "s", "u", "r", "e", " ", "a", "n",
       "d", " ", "c", "h", "o", "r", "d", "s">>,
     <<"a", "d", "d", " ", "b", "a", "s", "s">>,
     <<"a", " ", "s", "o", "n", "g", " ", "c", "a", "l", "l", "e", "d", " ", "'", "X",
       "'">>,
     <<"h", "e", "l", "l", "o">>}

\* prior Songs: empty, ready for export, without title, without key, with a
\* track that has no measure, with a measure that has no beat, complete,
\* complete and ready for export, and with the electric bass
ResolverSongs ==
    {createEmptySong,
     Spread(createEmptySong, [readyForExport |-> TRUE]),
     [createEmptySong EXCEPT !.metadata.title = <<>>],
     [createEmptySong EXCEPT !.metadata.keySignature = <<>>],
     Spread(createEmptySong, [tracks |-> <<buildTrack("guitar", "Guitar", "Guitar", FALSE)>>]),
     Spread(createEmptySong,
            [tracks |-> <<Spread(buildTrack("guitar", "Guitar", "Guitar", FALSE),
                                 [measures |-> MeasureList(1, "empty")])>>]),
     Spread(createEmptySong,
            [tracks |-> <<createDefaultTrack>>, chordsBySection |-> UserChords]),
     Spread(createEmptySong, [tracks |-> <<createDefaultTrack>>, readyForExport |-> TRUE]),
     Spread(createEmptySong, [tracks |-> <<ElectricBassTrack>>])}

\* applyMessageToSong of the revision rev
resolver(rev, s, msg) ==
    IF rev = "current" THEN applyMessageToSongCurrent(s, msg) ELSE applyMessageToSong(s, msg)

ResolverInit ==
    /\ chatRevision \in ChatRevisions
    /\ apiKeySet = FALSE
    /\ chatBody = NoBody
    /\ message \in ResolverMessages
    /\ baseSong \in ResolverSongs
    /\ agentCalls = 0
    /\ firstContent = <<>>
    /\ retryContent = <<>>
    /\ chatResponse = NoResponse
    /\ chatPc = "resolve"

\* applyMessageToSong(baseSong, message) returns
ResolverApply ==
    /\ chatPc = "resolve"
    /\ chatResponse' = Spread(resolver(chatRevision, baseSong, message), [status |-> 200])
    /\ chatPc' = "resolved"
    /\ UNCHANGED <<chatRevision, apiKeySet, chatBody, message, baseSong, agentCalls,
                   firstContent, retryContent>>

\* nextChecklistPrompt(baseSong) returns; only the current revision has it
ChecklistPrompt ==
    /\ chatPc = "resolve"
    /\ chatRevision = "current"
    /\ chatResponse' = [status |-> 0, prompt |-> nextChecklistPrompt(baseSong)]
    /\ chatPc' = "prompted"
    /\ UNCHANGED <<chatRevision, apiKeySet, chatBody, message, baseSong, agentCalls,
                   firstContent, retryContent>>

(***************************************************************************)
(* Generate-song route (POST /api/generate/song): one request.  The agent   *)
(* is asked once for a whole song; the song is validated, normalised,       *)
(* marked ready for export, merged with the tracks of a generated MIDI file *)
(* when MIDI_GEN_URL is set, and completed by ensureMusicalSong.            *)
(***************************************************************************)
GenTitle == <<"R", "i", "f", "f">>

GenGenre == <<"m", "e", "t", "a", "l">>

GenBodies ==
    {[title |-> GenTitle, genre |-> GenGenre],
     [genre |-> GenGenre],
     [title |-> <<" ", " ">>, genre |-> GenGenre]}

\* what the MIDI generator answers: not ok, a file without notes, a file
\* with one note-on at tick 0 of its second track; tracks is what midiToSong
\* transcribes from the file
GenMidiAnswers ==
    {[ok |-> FALSE],
     [ok |-> TRUE, tracks |-> MidiDestinationTracks],
     [ok |-> TRUE,
      tracks |-> placeNote(MidiDestinationTracks, 1,
                           [deltaTime |-> 0, type |-> "channel", subtype |-> "noteOn",
                            noteNumber |-> 45, velocity |-> 90],
                           0)]}

\* callSongwriterAI from the completion to its return or throw
callSongwriterAI(content) ==
    IF content.text = <<>> THEN Thrown
    ELSE IF ~Has(content, "parsed") THEN Thrown
    ELSE IF ~Has(content.parsed, "song") THEN Thrown
    ELSE IF ~safeParse(content.parsed.song).success THEN Thrown
    ELSE [thrown |-> FALSE, song |-> safeParse(content.parsed.song).data]

\* song = normalizeSong(song, baseSong); song = { ...song, readyForExport: true }
genNormalized(validated) ==
    Spread(normalizeSong("current", validated, createEmptySong), [readyForExport |-> TRUE])

\* song = ensureMusicalSong(song) and the JSON response
genRespond(s) ==
    [status |-> 200, song |-> ensureMusicalSong(s),
     reply |-> Get(ensureMusicalSong(s), "draftText", <<"Song generated.">>),
     followUps |-> <<>>]

GenInit ==
    /\ genApiKeySet \in BOOLEAN
    /\ midiUrlSet \in BOOLEAN
    /\ genBody \in GenBodies
    /\ genContent = <<>>
    /\ genSong = createEmptySong
    /\ genResponse = NoResponse
    /\ genPc = "request"

GenIdle ==
    /\ genApiKeySet = FALSE
    /\ midiUrlSet = FALSE
    /\ genBody = [genre |-> GenGenre]
    /\ genContent = <<>>
    /\ genSong = createEmptySong
    /\ genResponse = NoResponse
    /\ genPc = "idle"

\* POST up to its first await: 400 without title or genre, 500 when no API
\* key is configured, the request to the agent otherwise
GenPost ==
    /\ genPc = "request"
    /\ IF Trim(Get(genBody, "title", <<>>)) = <<>> \/ Trim(Get(genBody, "genre", <<>>)) = <<>>
       THEN genResponse' = [status |-> 400] /\ genPc' = "done"
       ELSE IF ~genApiKeySet
       THEN genResponse' = [status |-> 500] /\ genPc' = "done"
       ELSE genPc' = "awaitAgent" /\ UNCHANGED genResponse
    /\ UNCHANGED <<genApiKeySet, midiUrlSet, genBody, genContent, genSong>>

\* the completion arrives: a throw of callSongwriterAI answers 500; the
\* validated song is normalised and, without MIDI_GEN_URL, completed and sent
SongwriterResponds(content) ==
    /\ genPc = "awaitAgent"
    /\ genContent' = <<content>>
    /\ IF callSongwriterAI(content).thrown
       THEN /\ genResponse' = [status |-> 500]
            /\ genPc' = "done"
            /\ UNCHANGED genSong
       ELSE /\ genSong' = genNormalized(callSongwriterAI(content).song)
            /\ IF midiUrlSet
               THEN genPc' = "awaitMidi" /\ UNCHANGED genResponse
               ELSE genResponse' = genRespond(genSong') /\ genPc' = "done"
    /\ UNCHANGED <<genApiKeySet, midiUrlSet, genBody>>

\* the request to the agent rejects
SongwriterFails ==
    /\ genPc = "awaitAgent"
    /\ genResponse' = [status |-> 500]
    /\ genPc' = "done"
    /\ UNCHANGED <<genApiKeySet, midiUrlSet, genBody, genContent, genSong>>

\* mergeWithMidi after the fetch: the song as it is when the answer is not
\* ok, with the transcribed tracks otherwise
MidiGenResponds(answer) ==
    /\ genPc = "awaitMidi"
    /\ genSong' = IF answer.ok THEN Spread(genSong, [tracks |-> answer.tracks]) ELSE genSong
    /\ genResponse' = genRespond(genSong')
    /\ genPc' = "done"
    /\ UNCHANGED <<genApiKeySet, midiUrlSet, genBody, genContent>>

\* the fetch rejects, or the bytes are no MIDI file: the catch answers 500
MidiGenFails ==
    /\ genPc = "awaitMidi"
    /\ genResponse' = [status |-> 500]
    /\ genPc' = "done"
    /\ UNCHANGED <<genApiKeySet, midiUrlSet, genBody, genContent, genSong>>

(***************************************************************************)
(* The client component (ChatComposer).  clientSong, clientInput,           *)
(* clientMessages, clientFollowUps, clientError and isSubmitting are its    *)
(* React state; the buttons are disabled while isSubmitting, so one request *)
(* is in flight at a time.  sent and answers record the requests made and   *)
(* the answers received.  The earlier revision has no quick generation.     *)
(***************************************************************************)
Undefined == [undefined |-> TRUE]

NoError == <<>>

ChatUrl == "/api/chat"

GenerateUrl == "/api/generate/song"

Rejected == [kind |-> "rejected"]

\* JSON.parse(text) throws for a text that is not JSON
ParseFails(answer) == answer.body.kind = "text"

\* text ? JSON.parse(text) : {}
dataOf(answer) == IF answer.body.kind = "json" THEN answer.body.data ELSE <<>>

\* the try block runs to its end: fetch resolved, the text was parsed, and
\* response.ok
Succeeds(answer) == answer.kind = "response" /\ ~ParseFails(answer) /\ answer.ok

\* mutant: the song is stored before response.ok is tested
songAfter_beforeOkTest(held, answer) ==
    IF answer.kind = "response" /\ ~ParseFails(answer) /\ Has(dataOf(answer), "song")
    THEN dataOf(answer).song
    ELSE IF Succeeds(answer) THEN Undefined ELSE held

\* the song state after the try / catch: setSong(data.song) is reached only
\* when nothing threw before it
songAfter(held, answer) ==
    IF Succeeds(answer) THEN Get(dataOf(answer), "song", Undefined) ELSE held

\* the message that the catch block stores
errorAfter(url, answer) ==
    IF answer.kind = "rejected" THEN "Failed to fetch"
    ELSE IF ParseFails(answer) THEN "SyntaxError"
    ELSE Get(dataOf(answer), "error",
             IF url = ChatUrl THEN "Unable to update the song."
             ELSE "Unable to generate the song.")

\* the messages after a successful answer
messagesAfter(request, messages, data) ==
    IF request.url = ChatUrl
    THEN Append(messages, [role |-> "assistant", content |-> Get(data, "reply", Undefined)])
    ELSE messages \o
         <<[role |-> "user",
            content |-> <<"Generate full song: ", request.body.title, " (",
                          request.body.genre, ")">>],
           [role |-> "assistant", content |-> Get(data, "reply", Undefined)]>>

\* ---- the client taking turns ----
MaxTurns == 2

ClientInputs == {<<" ", " ">>, <<"a", "d", "d", " ", "b", "a", "s", "s">>}

ClientTitles == {<<>>, GenTitle}

ClientSongs ==
    {Spread(createEmptySong, [tracks |-> <<createDefaultTrack>>]),
     Spread(createEmptySong, [readyForExport |-> TRUE])}

\* what the server (or whatever answers in its place) sends back: a turn's
\* result with and without followUps, an OK answer with an empty body and one
\* that is not JSON, and failures with an error, with an empty body, with a
\* body that is not JSON, and with an error next to a song
ServerAnswers ==
    {[kind |-> "response", ok |-> TRUE,
      body |-> [kind |-> "json",
                data |-> [song |-> s, reply |-> "Updated the song.",
                          followUps |-> <<"What key do you want the song in?">>]]] :
        s \in ClientSongs}
    \cup {[kind |-> "response", ok |-> TRUE,
           body |-> [kind |-> "json",
                     data |-> [song |-> createEmptySong, reply |-> "Updated the song."]]],
          [kind |-> "response", ok |-> TRUE, body |-> [kind |-> "empty"]],
          [kind |-> "response", ok |-> TRUE, body |-> [kind |-> "text"]],
          [kind |-> "response", ok |-> FALSE, body |-> [kind |-> "empty"]],
          [kind |-> "response", ok |-> FALSE, body |-> [kind |-> "text"]],
          [kind |-> "response", ok |-> FALSE,
           body |-> [kind |-> "json", data |-> [error |-> "Invalid song JSON."]]],
          [kind |-> "response", ok |-> FALSE,
           body |-> [kind |-> "json",
                     data |-> [error |-> "Failed to process chat request.",
                               song |-> Spread(createEmptySong,
                                               [tracks |-> <<createDefaultTrack>>])]]]}

ClientInit ==
    /\ clientRevision \in ChatRevisions
    /\ clientSong = createEmptySong
    /\ clientInput = <<>>
    /\ clientMessages = <<>>
    /\ clientFollowUps = <<>>
    /\ clientError = NoError
    /\ isSubmitting = FALSE
    /\ sent = <<>>
    /\ answers = <<>>
    /\ clientPc = "idle"

ClientIdle ==
    /\ clientRevision = "current"
    /\ clientSong = createEmptySong
    /\ clientInput = <<>>
    /\ clientMessages = <<>>
    /\ clientFollowUps = <<>>
    /\ clientError = NoError
    /\ isSubmitting = FALSE
    /\ sent = <<>>
    /\ answers = <<>>
    /\ clientPc = "off"

\* the user types text and presses Send: handleSend up to the await
ClientSend(text) ==
    /\ clientPc = "idle"
    /\ ~isSubmitting
    /\ Len(sent) < MaxTurns
    /\ clientInput' = text
    /\ IF Trim(text) = <<>>
       THEN UNCHANGED <<clientError, isSubmitting, clientMessages, sent, clientPc>>
       ELSE /\ clientError' = NoError
            /\ isSubmitting' = TRUE
            /\ clientMessages' = Append(clientMessages, [role |-> "user", content |-> text])
            /\ sent' = Append(sent, [url |-> ChatUrl,
                                     body |-> [message |-> text, song |-> clientSong]])
            /\ clientPc' = "awaiting"
    /\ UNCHANGED <<clientRevision, clientSong, clientFollowUps, answers>>

\* the user presses Generate with the title typed: handleQuickGenerate up to
\* the await
ClientQuickGenerate(title) ==
    /\ clientRevision = "current"
    /\ clientPc = "idle"
    /\ ~isSubmitting
    /\ Len(sent) < MaxTurns
    /\ IF Trim(title) = <<>>
       THEN /\ clientError' = <<"Please enter a song title.">>
            /\ UNCHANGED <<isSubmitting, sent, clientPc>>
       ELSE /\ clientError' = NoError
            /\ isSubmitting' = TRUE
            /\ sent' = Append(sent, [url |-> GenerateUrl,
                                     body |-> [title |-> title, genre |-> GenGenre]])
            /\ clientPc' = "awaiting"
    /\ UNCHANGED <<clientRevision, clientSong, clientInput, clientMessages, clientFollowUps,
                   answers>>

\* the rest of the handler, from the await to the end of finally; rendering
\* a song that is undefined throws and takes the component down
ClientSettle(answer) ==
    /\ clientPc = "awaiting"
    /\ answers' = Append(answers, answer)
    /\ clientSong' = songAfter(clientSong, answer)
    /\ IF Succeeds(answer)
       THEN /\ clientFollowUps' = Get(dataOf(answer), "followUps", <<>>)
            /\ clientMessages' = messagesAfter(sent[Len(sent)], clientMessages, dataOf(answer))
            /\ clientInput' = IF sent[Len(sent)].url = ChatUrl THEN <<>> ELSE clientInput
            /\ UNCHANGED clientError
       ELSE /\ clientError' = <<errorAfter(sent[Len(sent)].url, answer)>>
            /\ UNCHANGED <<clientFollowUps, clientMessages, clientInput>>
    /\ isSubmitting' = FALSE
    /\ clientPc' = IF clientSong' = Undefined THEN "crashed" ELSE "idle"
    /\ UNCHANGED <<clientRevision, sent>>

\* the server answers
ClientReceives(answer) == ClientSettle(answer)

\* fetch rejects: the server cannot be reached
ClientFetchFails == ClientSettle(Rejected)

\* ---- the mapper called on its own ----
MaxTuningLen == 2

MaxPitch == 127

OpenPitches == {40, 45, 64, 110}

Tunings == SeqsUpTo(OpenPitches, MaxTuningLen) \cup {STANDARD_TUNING}

NoMapResult == [string |-> 0, fret |-> 0]

MapperInit ==
    /\ midi \in 0..MaxPitch
    /\ tuning \in Tunings
    /\ mapResult = NoMapResult
    /\ mapPc = "call"

MapperIdle ==
    /\ midi = 0
    /\ tuning = <<>>
    /\ mapResult = NoMapResult
    /\ mapPc = "idle"

MapCall ==
    /\ mapPc = "call"
    /\ mapResult' = mapMidiToStringFret(midi, tuning)
    /\ mapPc' = "returned"
    /\ UNCHANGED <<midi, tuning>>

(***************************************************************************)
(* mapMidiToStringFret on its own                                          *)
(***************************************************************************)
MapperNext ==
    /\ MapCall
    /\ UNCHANGED <<validatorVars, opsVars, midiVars, exportVars, chatVars, genVars, clientVars>>

MapperSpecInit ==
    MapperInit /\ ValidatorIdle /\ OpsIdle /\ MidiIdle /\ ExportIdle /\ ChatIdle /\ GenIdle /\ ClientIdle

MapperSpec == MapperSpecInit /\ [][MapperNext]_vars

\* strings (1-based) whose fret for pitch m lies in 0..24
Candidates(m, tun) ==
    {i \in 1..Len(tun) : m - tun[i] >= 0 /\ m - tun[i] <= MaxMappedFret}

GreatestOf(S) == CHOOSE i \in S : \A j \in S : j <= i

\* C7: when some string is a candidate, the mapper returns the greatest
\* candidate index (1-based) and the fret on that string; pitch 45 in standard
\* tuning maps to string 2, fret 0.
C7_LastCandidateWins ==
    mapPc = "returned" =>
        /\ Candidates(midi, tuning) # {} =>
              LET i == GreatestOf(Candidates(midi, tuning))
              IN  mapResult = [string |-> i, fret |-> midi - tuning[i]]
        /\ (midi = 45 /\ tuning = STANDARD_TUNING) =>
              mapResult = [string |-> 2, fret |-> 0]

\* a pitch with two candidate strings has been mapped
C7_Witness ==
    /\ mapPc = "returned"
    /\ Cardinality(Candidates(midi, tuning)) >= 2
    /\ mapResult.string = GreatestOf(Candidates(midi, tuning))
    /\ mapResult.string > 1

\* C8: when no string is a candidate (also for an empty tuning) the mapper
\* returns string 1 / fret 0; pitch 127 in standard tuning does so.
C8_Fallback ==
    mapPc = "returned" =>
        /\ Candidates(midi, tuning) = {} => mapResult = [string |-> 1, fret |-> 0]
        /\ (midi = 127 /\ tuning = STANDARD_TUNING) =>
              mapResult = [string |-> 1, fret |-> 0]

\* pitch 127 in standard tuning has been mapped by the fallback
C8_Witness ==
    /\ mapPc = "returned"
    /\ midi = 127
    /\ tuning = STANDARD_TUNING
    /\ Candidates(midi, tuning) = {}
    /\ mapResult = [string |-> 1, fret |-> 0]

\* the fallback has been taken for an empty tuning
C8_WitnessEmptyTuning ==
    /\ mapPc = "returned"
    /\ tuning = <<>>
    /\ mapResult = [string |-> 1, fret |-> 0]

\* C28: the mapper returns string 1 / fret 0 only when no string of the tuning
\* is a candidate, so that the returned pair alone tells that the fallback was
\* taken.
C28_FallbackIdentifiesUnmapped ==
    (mapPc = "returned" /\ mapResult = [string |-> 1, fret |-> 0]) =>
        Candidates(midi, tuning) = {}

\* what holds of C28: string 1 / fret 0 is returned exactly when no string is
\* a candidate or the pitch is the open first string and no later string is a
\* candidate
C28_FallbackOrOpenFirstString ==
    mapPc = "returned" =>
        (mapResult = [string |-> 1, fret |-> 0]
            <=> \/ Candidates(midi, tuning) = {}
                \/ /\ Candidates(midi, tuning) = {1}
                   /\ midi = tuning[1])

(***************************************************************************)
(* validateSong on its own                                                 *)
(***************************************************************************)
ValidatorNext ==
    /\ Validate
    /\ UNCHANGED <<mapperVars, opsVars, midiVars, exportVars, chatVars, genVars, clientVars>>

ValidatorSpecInit ==
    ValidatorInit /\ MapperIdle /\ OpsIdle /\ MidiIdle /\ ExportIdle /\ ChatIdle /\ GenIdle /\ ClientIdle

ValidatorSpec == ValidatorSpecInit /\ [][ValidatorNext]_vars

\* positions <<t, m, b, n>> of the notes of a raw document
NotePositions(r) ==
    IF ~Has(r, "tracks") THEN {}
    ELSE {p \in (DOMAIN r.tracks) \X {1} \X {1} \X {1} :
             /\ p[2] \in DOMAIN r.tracks[p[1]].measures
             /\ p[3] \in DOMAIN r.tracks[p[1]].measures[p[2]].beats
             /\ p[4] \in DOMAIN r.tracks[p[1]].measures[p[2]].beats[p[3]].notes}

NoteAt(r, p) == r.tracks[p[1]].measures[p[2]].beats[p[3]].notes[p[4]]

NotePath(p) ==
    <<"tracks", Idx(p[1]), "measures", Idx(p[2]), "beats", Idx(p[3]), "notes", Idx(p[4])>>

TempoOutOfBound(r) ==
    /\ Has(r, "metadata")
    /\ Has(r.metadata, "tempo")
    /\ (r.metadata.tempo < 30 \/ r.metadata.tempo > 300)

VelocityOutOfBound(n) == Has(n, "velocity") /\ (n.velocity < 1 \/ n.velocity > 127)

FretOutOfBound(n) == Has(n, "fret") /\ (n.fret < 0 \/ n.fret > 36)

\* C5: an input with a tempo outside [30,300], or a note velocity outside
\* [1,127], or a note fret outside [0,36], fails validation; the error names the
\* path of each such field and no Song is returned (nothing is clamped).
C5_RejectsOutOfBound ==
    valPc = "returned" =>
        /\ TempoOutOfBound(input) =>
              /\ ~parseResult.success
              /\ <<"metadata", "tempo">> \in parseResult.issues
        /\ \A p \in NotePositions(input) :
              /\ VelocityOutOfBound(NoteAt(input, p)) =>
                    /\ ~parseResult.success
                    /\ NotePath(p) \o <<"velocity">> \in parseResult.issues
              /\ FretOutOfBound(NoteAt(input, p)) =>
                    /\ ~parseResult.success
                    /\ NotePath(p) \o <<"fret">> \in parseResult.issues
        /\ ~parseResult.success => ~Has(parseResult, "data")

\* tempo 301 together with a velocity of 0 has been rejected with both paths
C5_Witness ==
    /\ valPc = "returned"
    /\ Has(input, "metadata")
    /\ Has(input.metadata, "tempo")
    /\ input.metadata.tempo = 301
    /\ \E p \in NotePositions(input) :
          /\ Has(NoteAt(input, p), "velocity")
          /\ NoteAt(input, p).velocity = 0
          /\ NotePath(p) \o <<"velocity">> \in parseResult.issues
    /\ <<"metadata", "tempo">> \in parseResult.issues
    /\ ~parseResult.success

\* every required key is present and every present value is within its bound
\* (stated on the input alone, for the keys the inputs of ValidatorInputs vary)
MissingOnlyOptional(r) ==
    /\ Has(r, "metadata")
    /\ Has(r, "tracks")
    /\ ~TempoOutOfBound(r)
    /\ \A p \in NotePositions(r) :
          ~VelocityOutOfBound(NoteAt(r, p)) /\ ~FretOutOfBound(NoteAt(r, p))

\* the value of key f of the result is the supplied one, or else the default d
SuppliedOrDefault(raw, out, f, d) ==
    /\ Has(out, f)
    /\ out[f] = (IF Has(raw, f) THEN raw[f] ELSE d)

\* C6: an input missing only optional fields validates, each omitted field
\* carries its documented default (tempo 120, key "C", time signature 4/4,
\* version "5.00", readyForExport false, capo 0, volume 100, pan 64, velocity
\* 90) and each supplied schema field is returned unchanged.
C6_TotalDefaulting ==
    (valPc = "returned" /\ MissingOnlyOptional(input)) =>
        /\ parseResult.success
        /\ LET out == parseResult.data
           IN  /\ SuppliedOrDefault(input.metadata, out.metadata, "tempo", 120)
               /\ SuppliedOrDefault(input.metadata, out.metadata, "keySignature", <<"C">>)
               /\ SuppliedOrDefault(input.metadata, out.metadata, "timeSignature",
                                    [beats |-> 4, beatType |-> 4])
               /\ SuppliedOrDefault(input.metadata, out.metadata, "version", "5.00")
               /\ \A f \in DOMAIN input.metadata : out.metadata[f] = input.metadata[f]
               /\ SuppliedOrDefault(input, out, "readyForExport", FALSE)
               /\ Len(out.tracks) = Len(input.tracks)
               /\ \A t \in DOMAIN input.tracks :
                     /\ SuppliedOrDefault(input.tracks[t], out.tracks[t], "capo", 0)
                     /\ SuppliedOrDefault(input.tracks[t], out.tracks[t], "volume", 100)
                     /\ SuppliedOrDefault(input.tracks[t], out.tracks[t], "pan", 64)
                     /\ \A f \in DOMAIN input.tracks[t] \ {"measures"} :
                           out.tracks[t][f] = input.tracks[t][f]
               /\ NotePositions(out) = NotePositions(input)
               /\ \A p \in NotePositions(input) :
                     /\ SuppliedOrDefault(NoteAt(input, p), NoteAt(out, p), "velocity", 90)
                     /\ \A f \in DOMAIN NoteAt(input, p) \ {"duration"} :
                           NoteAt(out, p)[f] = NoteAt(input, p)[f]
                     /\ \A f \in DOMAIN NoteAt(input, p).duration :
                           NoteAt(out, p).duration[f] = NoteAt(input, p).duration[f]

\* an input that omits tempo, key, time signature, version, readyForExport,
\* capo, volume, pan and velocity, and supplies a fret, has been validated
C6_Witness ==
    /\ valPc = "returned"
    /\ MissingOnlyOptional(input)
    /\ DOMAIN input.metadata = {"title"}
    /\ ~Has(input, "readyForExport")
    /\ Len(input.tracks) = 1
    /\ DOMAIN input.tracks[1] = {"id", "name", "instrument", "measures"}
    /\ ~Has(NoteAt(input, <<1, 1, 1, 1>>), "velocity")
    /\ Has(NoteAt(input, <<1, 1, 1, 1>>), "fret")
    /\ parseResult.success
    /\ parseResult.data.metadata.tempo = 120
    /\ parseResult.data.tracks[1].pan = 64

(***************************************************************************)
(* The song model operations                                               *)
(***************************************************************************)
OpsNext ==
    /\ \/ OpEnsureMeasureCounts
       \/ \E track \in OpsTracks : OpAddTrack(track)
       \/ OpEnsureMinimumSong
    /\ UNCHANGED <<mapperVars, validatorVars, midiVars, exportVars, chatVars, genVars, clientVars>>

OpsSpecInit ==
    OpsInit /\ MapperIdle /\ ValidatorIdle /\ MidiIdle /\ ExportIdle /\ ChatIdle /\ GenIdle /\ ClientIdle

OpsSpec == OpsSpecInit /\ [][OpsNext]_vars

MeasureCounts(ts) == {Len(ts[i].measures) : i \in DOMAIN ts}

GreatestCount(ts) ==
    IF ts = <<>> THEN 0
    ELSE CHOOSE n \in MeasureCounts(ts) : \A k \in MeasureCounts(ts) : k <= n

\* the tracks that went into the last operation (with the added one for addTrack)
TracksIn == IF lastOp = "addTrack" THEN Append(opInput.tracks, opTrack) ELSE opInput.tracks

\* C1: after ensureMeasureCounts or addTrack every track has the same number
\* of measures, and that number is the greatest measure count of the tracks
\* that went in (the added track included).
C1_EqualMeasureCounts ==
    lastOp \in {"ensureMeasureCounts", "addTrack"} =>
        /\ Len(song.tracks) = Len(TracksIn)
        /\ \A i \in DOMAIN song.tracks :
              Len(song.tracks[i].measures) = GreatestCount(TracksIn)

\* a track was added that is longer than the track already there, which was padded
C1_Witness ==
    /\ lastOp = "addTrack"
    /\ Len(opInput.tracks) = 1
    /\ Len(opTrack.measures) > Len(opInput.tracks[1].measures)
    /\ Len(song.tracks) = 2
    /\ Len(song.tracks[1].measures) = Len(opTrack.measures)
    /\ Len(song.tracks[2].measures) = Len(opTrack.measures)

\* C2: ensureMeasureCounts is idempotent: applied to its own result it returns
\* that result unchanged.
C2_Idempotent ==
    lastOp = "ensureMeasureCounts" => ensureMeasureCounts(song) = song

\* ensureMeasureCounts has padded a track, and a second application changes nothing
C2_Witness ==
    /\ lastOp = "ensureMeasureCounts"
    /\ song # opInput
    /\ ensureMeasureCounts(song) = song

\* every track has a measure and every measure has a beat
NonDegenerate(s) ==
    /\ Len(s.tracks) >= 1
    /\ \A i \in DOMAIN s.tracks :
          /\ Len(s.tracks[i].measures) >= 1
          /\ \A j \in DOMAIN s.tracks[i].measures : Len(s.tracks[i].measures[j].beats) >= 1

\* one six-string track holding one measure with a single quarter-note beat
IsOneDefaultTrack(ts) ==
    /\ Len(ts) = 1
    /\ ts[1].stringCount = 6
    /\ Len(ts[1].tuning) = 6
    /\ Len(ts[1].measures) = 1
    /\ Len(ts[1].measures[1].beats) = 1
    /\ Len(ts[1].measures[1].beats[1].notes) = 1
    /\ ts[1].measures[1].beats[1].notes[1].duration =
          [numerator |-> 1, denominator |-> 4, dotted |-> FALSE]

\* C15: for every schema-valid Song, ensureMinimumSong returns a Song with at
\* least one track, in which every track has at least one measure and every
\* measure has at least one beat; a Song with zero tracks gets exactly one
\* default six-string track holding one measure with a single quarter-note
\* beat.
C15_NonDegenerate ==
    lastOp = "ensureMinimumSong" =>
        /\ IsValidSong(opInput)
        /\ NonDegenerate(song)
        /\ (Len(opInput.tracks) = 0 => IsOneDefaultTrack(song.tracks))

\* ensureMinimumSong has been applied to a Song with zero tracks
C15_Witness ==
    /\ lastOp = "ensureMinimumSong"
    /\ Len(opInput.tracks) = 0
    /\ IsOneDefaultTrack(song.tracks)

\* ensureMinimumSong has been applied to a Song with a track without measures
\* and a track whose measures hold no beat
C15_WitnessRepaired ==
    /\ lastOp = "ensureMinimumSong"
    /\ \E i \in DOMAIN opInput.tracks : Len(opInput.tracks[i].measures) = 0
    /\ \E i \in DOMAIN opInput.tracks :
          /\ Len(opInput.tracks[i].measures) > 0
          /\ Len(opInput.tracks[i].measures[1].beats) = 0
    /\ NonDegenerate(song)

\* C18: after a normalization pass (ensureMeasureCounts, ensureMinimumSong)
\* over a schema-valid Song, every measure's index equals its zero-based
\* position in its track's measure list.
C18_IndexEqualsPosition ==
    lastOp \in {"ensureMeasureCounts", "ensureMinimumSong"} =>
        \A i \in DOMAIN song.tracks :
            \A j \in DOMAIN song.tracks[i].measures :
                song.tracks[i].measures[j].index = j - 1

\* C24: ensureMeasureCounts only appends: it keeps the number, the order and
\* the non-measure fields of the tracks, keeps every other field of the Song
\* (metadata, sections, draftText, chordsBySection, readyForExport), keeps each
\* track's measures as a prefix of its new measure list, and every appended
\* measure has no beat and an index equal to its position in the list.
C24_PaddingOnlyAppends ==
    lastOp = "ensureMeasureCounts" =>
        /\ Without(song, "tracks") = Without(opInput, "tracks")
        /\ Len(song.tracks) = Len(opInput.tracks)
        /\ \A i \in DOMAIN song.tracks :
              LET old == opInput.tracks[i].measures
                  new == song.tracks[i].measures
              IN  /\ Without(song.tracks[i], "measures")
                        = Without(opInput.tracks[i], "measures")
                  /\ Len(new) >= Len(old)
                  /\ SubSeq(new, 1, Len(old)) = old
                  /\ \A j \in (Len(old) + 1)..Len(new) :
                        new[j] = [index |-> j - 1, beats |-> <<>>]

\* a track that holds a beat was padded after its own measures, in a document
\* that carries a draft, chords and the export flag
C24_Witness ==
    /\ lastOp = "ensureMeasureCounts"
    /\ Has(song, "draftText")
    /\ Has(song, "chordsBySection")
    /\ song.readyForExport
    /\ \E i \in DOMAIN song.tracks :
          /\ Len(opInput.tracks[i].measures) = 1
          /\ opInput.tracks[i].measures[1].beats # <<>>
          /\ Len(song.tracks[i].measures) = 2
          /\ song.tracks[i].measures[2].index = 1

\* C25: the default note that ensureMinimumSong inserts lies on the lowest open
\* string of the default track under the mapper's string numbering (string k is
\* tuning[k-1]): the pitch of the note's string is the minimum of the track's
\* tuning, and the note's fret is 0.
C25_DefaultNoteOnLowestString ==
    (lastOp = "ensureMinimumSong" /\ opInput.tracks = <<>>) =>
        LET track == song.tracks[1]
            note == track.measures[1].beats[1].notes[1]
        IN  /\ note.fret = 0
            /\ note.string \in DOMAIN track.tuning
            /\ \A k \in DOMAIN track.tuning : track.tuning[note.string] <= track.tuning[k]

\* what holds of C25: the default note is an open note on the string the
\* mapper numbers last, the one of the highest pitch
C25_DefaultNoteOnHighestString ==
    (lastOp = "ensureMinimumSong" /\ opInput.tracks = <<>>) =>
        LET track == song.tracks[1]
            note == track.measures[1].beats[1].notes[1]
        IN  /\ note.fret = 0
            /\ note.string = Len(track.tuning)
            /\ \A k \in DOMAIN track.tuning : track.tuning[note.string] >= track.tuning[k]
            /\ mapMidiToStringFret(track.tuning[note.string], track.tuning).string = note.string

(***************************************************************************)
(* The MIDI transcriber                                                    *)
(***************************************************************************)
MidiNext ==
    /\ \/ MidiNextTrack
       \/ \E event \in MidiEvents : MidiSkippedEvent(event)
       \/ \E event \in MidiEvents : MidiEvent(event)
       \/ MidiReturn
    /\ UNCHANGED <<mapperVars, validatorVars, opsVars, exportVars, chatVars, genVars, clientVars>>

MidiSpecInit ==
    MidiInit /\ MapperIdle /\ ValidatorIdle /\ OpsIdle /\ ExportIdle /\ ChatIdle /\ GenIdle /\ ClientIdle

MidiSpec == MidiSpecInit /\ [][MidiNext]_vars

RECURSIVE SumSeq(_)
SumSeq(q) == IF q = <<>> THEN 0 ELSE q[1] + SumSeq(Tail(q))

\* the absolute tick of the last event read: the sum of the delta times of
\* its source track so far
TickOfLast == SumSeq(deltas)

\* C9: a transcribed note-on at absolute tick T lies in measure
\* floor(T / (4 * ticksPerBeat)) of its target track, in a new beat (the last
\* of that measure) whose start is floor((T mod (4 * ticksPerBeat)) /
\* ticksPerBeat); the track was grown by empty measures exactly as far as
\* needed, so every index 0..measureIndex exists; a note at T = 3 *
\* ticksPerMeasure lies in measure 3.
C9_Placement ==
    (midiPc = "reading" /\ lastNote.target # 0) =>
        LET T == TickOfLast
            measureIndex == T \div (4 * ticksPerBeat)
            beatIndex == (T % (4 * ticksPerBeat)) \div ticksPerBeat
            measures == tracks[lastNote.target].measures
        IN  /\ Len(measures) = Max(lastNote.measuresBefore, measureIndex + 1)
            /\ \A i \in 1..Len(measures) : measures[i].index = i - 1
            /\ \A i \in (lastNote.measuresBefore + 1)..measureIndex : measures[i].beats = <<>>
            /\ Len(measures[measureIndex + 1].beats) = lastNote.beatsBefore + 1
            /\ LET beat == measures[measureIndex + 1].beats[lastNote.beatsBefore + 1]
               IN  /\ beat.start = beatIndex
                   /\ Len(beat.notes) = 1
                   /\ beat.notes[1].midiPitch = lastNote.event.noteNumber
            /\ T = 3 * ticksPerMeasure => measureIndex = 3

\* a note-on at T = 3 * ticksPerMeasure has been placed on an empty track:
\* measures 0..3 now exist and the note is in measure 3
C9_Witness ==
    /\ midiPc = "reading"
    /\ lastNote.target # 0
    /\ lastNote.measuresBefore = 0
    /\ TickOfLast = 3 * ticksPerMeasure
    /\ Len(tracks[lastNote.target].measures) = 4
    /\ Len(tracks[lastNote.target].measures[4].beats) = 1
    /\ tracks[lastNote.target].measures[4].beats[1].start = 0

\* a note-on inside a measure (not on its first beat) has been placed
C9_WitnessBeat ==
    /\ midiPc = "reading"
    /\ lastNote.target # 0
    /\ TickOfLast % ticksPerMeasure >= ticksPerBeat

RECURSIVE BeatsOfMeasures(_)
BeatsOfMeasures(ms) ==
    IF ms = <<>> THEN 0 ELSE Len(ms[1].beats) + BeatsOfMeasures(Tail(ms))

RECURSIVE BeatCount(_)
BeatCount(ts) ==
    IF ts = <<>> THEN 0 ELSE BeatsOfMeasures(ts[1].measures) + BeatCount(Tail(ts))

\* the event read last is a note-on with a velocity other than zero and a
\* pitch in 0..127, read from a source track beyond the first
SoundingNoteOnRead ==
    /\ midiPc = "reading"
    /\ trackIndex >= 1
    /\ Has(lastEvent, "type")
    /\ lastEvent.type = "channel"
    /\ Has(lastEvent, "subtype")
    /\ lastEvent.subtype = "noteOn"
    /\ Has(lastEvent, "noteNumber")
    /\ lastEvent.noteNumber \in 0..127
    /\ Has(lastEvent, "velocity")
    /\ lastEvent.velocity # 0

\* exactly one beat was appended to the tracks, in one measure of track t, and
\* it holds one note of the pitch read, on the string and fret the mapper
\* gives for the tuning of track t
OneBeatAppended(t) ==
    /\ BeatCount(tracks) = BeatCount(tracksBefore) + 1
    /\ \A u \in DOMAIN tracks : u # t => tracks[u] = tracksBefore[u]
    /\ \E m \in DOMAIN tracks[t].measures :
          LET beats == tracks[t].measures[m].beats
              before == IF m \in DOMAIN tracksBefore[t].measures
                        THEN tracksBefore[t].measures[m].beats ELSE <<>>
              mapped == mapMidiToStringFret(lastEvent.noteNumber,
                                            defaultTuningForTrack(tracksBefore[t]))
          IN  /\ Len(beats) = Len(before) + 1
              /\ SubSeq(beats, 1, Len(before)) = before
              /\ Len(beats[Len(beats)].notes) = 1
              /\ beats[Len(beats)].notes[1].midiPitch = lastEvent.noteNumber
              /\ beats[Len(beats)].notes[1].string = mapped.string
              /\ beats[Len(beats)].notes[1].fret = mapped.fret

\* C21: every note-on with a non-zero velocity and a pitch in 0..127, read from
\* a source track beyond the first, appends exactly one beat holding exactly one
\* note, whose midiPitch is the pitch read and whose string and fret are the
\* mapper's result for that pitch and the tuning of the target track.
C21_EveryNoteOnTranscribed ==
    SoundingNoteOnRead => \E t \in DOMAIN tracks : OneBeatAppended(t)

\* what holds of C21: the same, for every pitch other than 0
C21_ExceptPitchZero ==
    (SoundingNoteOnRead /\ lastEvent.noteNumber # 0) =>
        \E t \in DOMAIN tracks : OneBeatAppended(t)

\* the event read last is one the transcriber ignores: a note-off, a note-on
\* of velocity zero, or an event that is not a channel event
IgnoredEventRead ==
    /\ midiPc = "reading"
    /\ trackIndex >= 1
    /\ Has(lastEvent, "type")
    /\ \/ lastEvent.type # "channel"
       \/ lastEvent.subtype = "noteOff"
       \/ lastEvent.subtype = "noteOn" /\ Has(lastEvent, "velocity") /\ lastEvent.velocity = 0

\* C22: a note-off, a note-on of velocity zero and a non-channel event add no
\* beat and no measure to any track, and their delta time still advances the
\* absolute tick of their source track: after every event of a source track
\* beyond the first the tick is the sum of all delta times read from that track,
\* ignored events included (C9 places the later notes by that sum).
C22_IgnoredEvents ==
    /\ IgnoredEventRead => tracks = tracksBefore
    /\ (midiPc = "reading" /\ trackIndex >= 1) => absolute = TickOfLast

\* an ignored event of delta time > 0 was read and moved the tick
C22_Witness ==
    /\ IgnoredEventRead
    /\ lastEvent.deltaTime > 0
    /\ absolute = lastEvent.deltaTime
    /\ tracks = tracksBefore

\* a note placed after an ignored event: it is the first note of its target
\* track and the second event of its source track, and it lies one beat later
\* than its own delta time puts it
C22_WitnessLaterNote ==
    /\ midiPc = "reading"
    /\ lastNote.target # 0
    /\ lastNote.measuresBefore = 0
    /\ Len(deltas) = 2
    /\ deltas = <<ticksPerBeat, 0>>
    /\ BeatCount(tracks) = 1
    /\ tracks[lastNote.target].measures[1].beats[1].start = 1

\* C23: midiToSong returns exactly three tracks, Guitar, Bass, Drums in that
\* order; events of the first source track change no track; an event of the
\* source track at position k >= 1 changes only destination track min(k-1, 2)
\* (0-based): the second source track feeds Guitar, the third Bass, every later
\* one Drums.
C23_SourceTrackRouting ==
    /\ midiPc = "returned" =>
          /\ Len(midiResult.tracks) = 3
          /\ midiResult.tracks[1].name = "Guitar"
          /\ midiResult.tracks[2].name = "Bass"
          /\ midiResult.tracks[3].name = "Drums"
          /\ midiResult.tracks = tracks
    /\ midiPc = "reading" =>
          /\ Len(tracks) = 3
          /\ trackIndex = 0 => tracks = tracksBefore
          /\ \A u \in DOMAIN tracks :
                tracks[u] # tracksBefore[u] =>
                    u = (IF trackIndex - 1 < 2 THEN trackIndex - 1 ELSE 2) + 1

\* a note of the fifth source track has been folded onto Drums, and the song
\* was returned with notes on all three tracks
C23_Witness ==
    /\ midiPc = "reading"
    /\ trackIndex = 4
    /\ tracks[3] # tracksBefore[3]

\* a note-on read from the first source track left the tracks alone
C23_WitnessFirstTrack ==
    /\ midiPc = "reading"
    /\ trackIndex = 0
    /\ Has(lastEvent, "type")
    /\ IsTranscribed(lastEvent)
    /\ tracks = tracksBefore

\* a song was returned whose Guitar and Bass tracks were both fed
C23_WitnessReturned ==
    /\ midiPc = "returned"
    /\ midiResult.tracks[1].measures # <<>>
    /\ midiResult.tracks[2].measures # <<>>

\* the beats and notes of the tracks ts are inside the bounds of the schema,
\* and every measure is numbered by its position
InsideSchemaBounds(ts) ==
    \A t \in DOMAIN ts :
        \A m \in DOMAIN ts[t].measures :
            /\ ts[t].measures[m].index = m - 1
            /\ \A b \in DOMAIN ts[t].measures[m].beats :
                  /\ ts[t].measures[m].beats[b].start \in 0..3
                  /\ \A n \in DOMAIN ts[t].measures[m].beats[b].notes :
                        LET note == ts[t].measures[m].beats[b].notes[n]
                        IN  /\ note.string \in 1..6
                            /\ note.fret \in 0..24
                            /\ note.velocity \in 1..127

\* C29: for every stream with ticksPerBeat >= 1, pitches in 0..127 and
\* velocities in 0..127, every beat midiToSong produces has start in 0..3, every
\* note has string in 1..6, fret in 0..24 and velocity in 1..127, every measure's
\* index equals its position in its track, and the returned Song passes Schema
\* Validation.
C29_OutputInsideSchema ==
    /\ midiPc = "reading" => InsideSchemaBounds(tracks)
    /\ midiPc = "returned" =>
          /\ InsideSchemaBounds(midiResult.tracks)
          /\ IsValidSong(midiResult)

\* a song was returned that holds a note of the highest pitch (no string
\* reaches it: string 1, fret 0) in the last beat of a measure
C29_Witness ==
    /\ midiPc = "returned"
    /\ \E t \in DOMAIN midiResult.tracks :
          \E m \in DOMAIN midiResult.tracks[t].measures :
              \E b \in DOMAIN midiResult.tracks[t].measures[m].beats :
                  /\ midiResult.tracks[t].measures[m].beats[b].notes[1].midiPitch = 127
                  /\ midiResult.tracks[t].measures[m].beats[b].notes[1].velocity = 127

\* a measure beyond the first holds a beat that does not start the measure
C29_WitnessLateBeat ==
    /\ midiPc = "returned"
    /\ \E t \in DOMAIN midiResult.tracks :
          /\ Len(midiResult.tracks[t].measures) = 4
          /\ midiResult.tracks[t].measures[4].beats # <<>>
          /\ midiResult.tracks[t].measures[4].beats[1].start = 1

(***************************************************************************)
(* ensureMusicalSong                                                       *)
(***************************************************************************)
MusicalNext ==
    OpEnsureMusicalSong
    /\ UNCHANGED <<mapperVars, validatorVars, midiVars, exportVars, chatVars, genVars, clientVars>>

MusicalSpecInit ==
    MusicalInit /\ MapperIdle /\ ValidatorIdle /\ MidiIdle /\ ExportIdle /\ ChatIdle /\ GenIdle /\ ClientIdle

MusicalSpec == MusicalSpecInit /\ [][MusicalNext]_vars

\* the measures are four, numbered 0..3, each one beat of one note, at frets
\* 0, 3, 5, 8 in that order
IsProgression(measures) ==
    /\ Len(measures) = 4
    /\ \A j \in 1..4 :
          /\ measures[j].index = j - 1
          /\ Len(measures[j].beats) = 1
          /\ Len(measures[j].beats[1].notes) = 1
    /\ <<measures[1].beats[1].notes[1].fret, measures[2].beats[1].notes[1].fret,
         measures[3].beats[1].notes[1].fret, measures[4].beats[1].notes[1].fret>>
          = <<0, 3, 5, 8>>

\* C16: ensureMusicalSong returns a Song that has a track with instrument
\* "Bass" and a drums track, in which every track that had zero measures now
\* has exactly four measures (indices 0..3) whose single notes are at frets
\* 0, 3, 5, 8 in that order, and in which chordsBySection and draftText are
\* present; a chordsBySection or non-empty draftText already present in the
\* input is returned unchanged.
C16_MusicalCompleteness ==
    lastOp = "ensureMusicalSong" =>
        /\ \E i \in DOMAIN song.tracks : song.tracks[i].instrument = "Bass"
        /\ \E i \in DOMAIN song.tracks : Get(song.tracks[i], "isDrums", FALSE)
        /\ \A i \in DOMAIN opInput.tracks :
              Len(opInput.tracks[i].measures) = 0 =>
                  /\ i \in DOMAIN song.tracks
                  /\ song.tracks[i].id = opInput.tracks[i].id
                  /\ IsProgression(song.tracks[i].measures)
        /\ Has(song, "chordsBySection")
        /\ Has(song, "draftText")
        /\ song.draftText # <<>>
        /\ (Has(opInput, "chordsBySection") =>
               song.chordsBySection = opInput.chordsBySection)
        /\ (Get(opInput, "draftText", <<>>) # <<>> => song.draftText = opInput.draftText)

\* ensureMusicalSong has been applied to a Song without bass, drums, chords
\* and draft, one of whose tracks had no measure
C16_Witness ==
    /\ lastOp = "ensureMusicalSong"
    /\ \E i \in DOMAIN opInput.tracks : Len(opInput.tracks[i].measures) = 0
    /\ ~\E i \in DOMAIN opInput.tracks : opInput.tracks[i].instrument = "Bass"
    /\ ~\E i \in DOMAIN opInput.tracks : Get(opInput.tracks[i], "isDrums", FALSE)
    /\ ~Has(opInput, "chordsBySection")
    /\ ~Has(opInput, "draftText")
    /\ Len(song.tracks) = Len(opInput.tracks) + 2

\* ensureMusicalSong has been applied to a Song that brought its own chords
\* and draft
C16_WitnessKept ==
    /\ lastOp = "ensureMusicalSong"
    /\ Has(opInput, "chordsBySection")
    /\ Get(opInput, "draftText", <<>>) # <<>>
    /\ song.chordsBySection = UserChords
    /\ song.draftText = UserDraft

\* C26: for every Song whose tracks all have the same measure count, every
\* track of ensureMusicalSong(song) has the same measure count, the Bass and
\* Drums tracks it inserts included.
C26_RepairKeepsEqualCounts ==
    (lastOp = "ensureMusicalSong" /\ Cardinality(MeasureCounts(opInput.tracks)) <= 1) =>
        Cardinality(MeasureCounts(song.tracks)) <= 1

\* what holds of C26: the inserted tracks always have one measure, so the
\* counts are equal exactly when every track that went in had one measure
C26_EqualOnlyForOneMeasure ==
    (/\ lastOp = "ensureMusicalSong"
     /\ Len(song.tracks) > Len(opInput.tracks)
     /\ opInput.tracks # <<>>) =>
        /\ \A i \in (Len(opInput.tracks) + 1)..Len(song.tracks) :
              Len(song.tracks[i].measures) = 1
        /\ Cardinality(MeasureCounts(song.tracks)) <= 1
              <=> MeasureCounts(opInput.tracks) = {1}

TrackIds(ts) == {ts[i].id : i \in DOMAIN ts}

IdsDistinct(ts) == Cardinality(TrackIds(ts)) = Len(ts)

\* C27: starting from a schema-valid Song whose track ids are pairwise
\* distinct, the track ids of ensureMusicalSong(song) (which inserts the ids
\* "bass" and "drums") are still pairwise distinct.
C27_TrackIdsUnique ==
    (lastOp = "ensureMusicalSong" /\ IsValidSong(opInput) /\ IdsDistinct(opInput.tracks)) =>
        IdsDistinct(song.tracks)

\* what holds of C27: the ids stay distinct when every track that went in
\* is named by its instrument (id "bass" only on a "Bass", id "drums" only on
\* a drums track)
C27_UniqueWhenIdsFollowInstruments ==
    (/\ lastOp = "ensureMusicalSong"
     /\ IdsDistinct(opInput.tracks)
     /\ \A i \in DOMAIN opInput.tracks :
           /\ opInput.tracks[i].id = "bass" => opInput.tracks[i].instrument = "Bass"
           /\ opInput.tracks[i].id = "drums" => Get(opInput.tracks[i], "isDrums", FALSE)) =>
        IdsDistinct(song.tracks)

(***************************************************************************)
(* The export route                                                        *)
(***************************************************************************)
ExportNext ==
    /\ \/ ExportPost
       \/ \E ok \in BOOLEAN : WriterResponds(ok)
       \/ WriterUnreachable
    /\ UNCHANGED <<mapperVars, validatorVars, opsVars, midiVars, chatVars, genVars, clientVars>>

ExportSpecInit ==
    ExportInit /\ MapperIdle /\ ValidatorIdle /\ OpsIdle /\ MidiIdle /\ ChatIdle /\ GenIdle /\ ClientIdle

ExportSpec == ExportSpecInit /\ [][ExportNext]_vars

\* C4: every document the export route sends to the external writer has at
\* least one track (Ensure Minimum Song runs before serialization), so a
\* request carrying a Song with zero tracks never causes a writer call whose
\* payload has zero tracks.
C4_WriterPayloadHasTrack ==
    \A i \in DOMAIN writerRequests : Len(writerRequests[i].tracks) > 0

(***************************************************************************)
(* The chat route                                                          *)
(***************************************************************************)
ChatNext ==
    /\ \/ ChatPost
       \/ \E content \in AgentContents : AgentResponds(content)
       \/ AgentFails
       \/ AgentTimesOut
       \/ \E retry \in AgentContents : RepairResponds(retry)
       \/ RepairFails
    /\ UNCHANGED <<mapperVars, validatorVars, opsVars, midiVars, exportVars, genVars, clientVars>>

ChatSpecInit ==
    ChatInit /\ MapperIdle /\ ValidatorIdle /\ OpsIdle /\ MidiIdle /\ ExportIdle /\ GenIdle /\ ClientIdle

ChatSpec == ChatSpecInit /\ [][ChatNext]_vars

\* C3: a chat turn always yields a valid Song: for every schema-valid prior
\* Song (or none) and every non-empty instruction, whether the agent
\* succeeds, is absent, times out or fails repair, the finished turn answers
\* with a Song that passes Schema Validation, not with an error or an
\* out-of-bounds document.
C3_TurnYieldsValidSong ==
    (/\ chatPc = "done"
     /\ message # <<>>
     /\ (Has(chatBody, "song") => IsValidSong(chatBody.song)))
        => /\ chatResponse.status = 200
           /\ IsValidSong(chatResponse.song)

\* the repair completion is empty, unparseable, or carries a song that again
\* fails validation
RepairFailed ==
    /\ retryContent # <<>>
    /\ \/ retryContent[1].text = <<>>
       \/ ~Has(retryContent[1], "parsed")
       \/ NeedsRepair(retryContent[1].parsed)

\* C10 (first part): within one chat turn the agent is called at most twice.
C10_AtMostTwoCalls == agentCalls <= 2

\* C10 (second part): the repair call is issued exactly when the song in the
\* first response fails Schema Validation.
C10_RepairExactlyOnInvalid ==
    (agentCalls = 2) <=>
        (/\ firstContent # <<>>
         /\ Has(firstContent[1], "parsed")
         /\ NeedsRepair(firstContent[1].parsed))

\* C10 (third part): if the repaired response is again invalid, empty or
\* unparseable, the turn's answer is the deterministic fallback's answer and
\* not one built from the agent's output.
C10_FallbackAfterFailedRepair ==
    (chatPc = "done" /\ RepairFailed) =>
        chatResponse = Respond(chatRevision, Fallback(chatRevision, message, baseSong, TRUE),
                               baseSong)

\* C10: the agent repair protocol: at most two calls in a turn, the second
\* exactly when the first response's song fails Schema Validation, and a
\* failed repair answered from the deterministic fallback.
C10_RepairProtocol ==
    /\ C10_AtMostTwoCalls
    /\ C10_RepairExactlyOnInvalid
    /\ C10_FallbackAfterFailedRepair

\* C13: readyForExport is never silently cleared: when the snapshot passed
\* into a turn that takes the deterministic path (no agent) has
\* readyForExport = true, the Song returned by the turn has it true as well
\* (the client passes the returned Song into the next turn, so that the same
\* holds of every later turn).
C13_ReadyNeverCleared ==
    (/\ chatPc = "done"
     /\ ~apiKeySet
     /\ chatResponse.status = 200
     /\ Has(chatBody, "song")
     /\ Get(chatBody.song, "readyForExport", FALSE))
    => chatResponse.song.readyForExport = TRUE

\* The steps that the runtime itself schedules, told by the position of the
\* handler: ChatPost leaves "request" in every state it is in, and the timer
\* of Promise.race (AgentTimesOut, current revision) leaves "awaitAgent".
ChatPostStep == chatPc = "request" /\ chatPc' \in {"done", "awaitAgent"}

RaceTimerStep == chatPc = "awaitAgent" /\ chatRevision = "current" /\ chatPc' = "done"

\* The handler's own steps are taken when they can be.  Nothing is assumed
\* of the agent, which may answer, fail, or stay silent.
ChatFairness == WF_chatPc(ChatPostStep) /\ WF_chatPc(RaceTimerStep)

ChatFairSpec == ChatSpecInit /\ [][ChatNext]_vars /\ ChatFairness

\* the first call of the current revision is bounded by the race: the turn
\* completes or reaches the repair call
FirstCallBounded ==
    (chatRevision = "current") => <>(chatPc \in {"done", "awaitRepair"})

\* C17: no chat turn blocks indefinitely: the initial agent call and the
\* repair call are both bounded by the timeout, so that every turn eventually
\* completes with a response, even if the agent never answers.
C17_EveryTurnCompletes == <>(chatPc = "done")

(***************************************************************************)
(* The rule-based resolver and the checklist                                *)
(***************************************************************************)
ResolverNext ==
    (ResolverApply \/ ChecklistPrompt)
    /\ UNCHANGED <<mapperVars, validatorVars, opsVars, midiVars, exportVars, genVars, clientVars>>

ResolverSpecInit ==
    ResolverInit /\ MapperIdle /\ ValidatorIdle /\ OpsIdle /\ MidiIdle /\ ExportIdle /\ GenIdle /\ ClientIdle

ResolverSpec == ResolverSpecInit /\ [][ResolverNext]_vars

HasFollowUp(questions) ==
    \E k \in DOMAIN chatResponse.followUps : chatResponse.followUps[k] \in questions

\* C11: the resolver applied to "140 bpm song in the key of D minor with
\* guitar and drums" and an empty Song yields tempo 140, keySignature
\* "D minor", a Guitar track and a Drums track, and follow-ups with no tempo
\* question and no key question but with a question about measures or beats.
C11_ResolverScenario ==
    (chatPc = "resolved" /\ message = ScenarioInstruction /\ baseSong = createEmptySong) =>
        /\ chatResponse.song.metadata.tempo = 140
        /\ chatResponse.song.metadata.keySignature = KeyDMinor
        /\ \E i \in DOMAIN chatResponse.song.tracks :
              chatResponse.song.tracks[i].instrument = "Guitar"
        /\ \E i \in DOMAIN chatResponse.song.tracks :
              Get(chatResponse.song.tracks[i], "isDrums", FALSE)
        /\ ~HasFollowUp({TempoQuestion,
                         "What tempo should we use? You can reply like '120 bpm'."})
        /\ ~HasFollowUp({KeyQuestion, "What key do you want the song in?"})
        /\ HasFollowUp({MeasuresQuestion, BeatsQuestion})

\* C12: the resolver applied to "generate the gp5 file" yields a Song with
\* readyForExport = true for every prior Song.
C12_GenerateMakesReady ==
    (chatPc = "resolved" /\ message = GenerateInstruction) =>
        chatResponse.song.readyForExport = TRUE

\* C14: the resolver's readyForExport is true only if the instruction matches
\* the export/generate pattern or the prior Song had readyForExport = true;
\* with a prior false and an instruction that does not match, it is false.
C14_ReadyOnlyOnIntentOrPrior ==
    chatPc = "resolved" =>
        /\ chatResponse.song.readyForExport \in BOOLEAN
        /\ (chatResponse.song.readyForExport =>
               ExportIntent(message) \/ Get(baseSong, "readyForExport", FALSE))
        /\ (~ExportIntent(message) /\ ~Get(baseSong, "readyForExport", FALSE) =>
               chatResponse.song.readyForExport = FALSE)

\* the resolver answered not ready: prior false, no export phrase
C14_Witness ==
    /\ chatPc = "resolved"
    /\ message = GenerateInstruction
    /\ ~Get(baseSong, "readyForExport", FALSE)
    /\ chatResponse.song.readyForExport = FALSE

\* the resolver answered ready because of the phrase alone
C14_WitnessIntent ==
    /\ chatPc = "resolved"
    /\ ExportIntent(message)
    /\ ~Get(baseSong, "readyForExport", FALSE)
    /\ chatResponse.song.readyForExport = TRUE

\* the items of the checklist in their priority order, each with the test
\* that satisfies it
Satisfied(s, item) ==
    CASE item = "title" -> s.metadata.title # <<>>
      [] item = "tempo" -> s.metadata.tempo # 0
      [] item = "key" -> s.metadata.keySignature # <<>>
      [] item = "tracks" -> Len(s.tracks) > 0
      [] item = "measures" -> \E i \in DOMAIN s.tracks : Len(s.tracks[i].measures) > 0
      [] item = "beats" ->
            \E i \in DOMAIN s.tracks :
                \E j \in DOMAIN s.tracks[i].measures : Len(s.tracks[i].measures[j].beats) > 0

PriorityOrder == <<"title", "tempo", "key", "tracks", "measures", "beats">>

\* the question q belongs to the item: it is the question of that item's
\* case in nextChecklistPrompt and of no other
BelongsTo(q, item) == q # DefaultQuestion /\ q = promptFor(item)

\* C19: buildChecklist evaluates title, tempo, key, tracks, measures, beats
\* in this order, and nextChecklistPrompt returns the question that belongs
\* to the first unsatisfied item, and no question exactly when all six are
\* satisfied.
C19_ChecklistPriority ==
    chatPc = "prompted" =>
        /\ [k \in DOMAIN buildChecklist(baseSong) |-> buildChecklist(baseSong)[k].id]
              = PriorityOrder
        /\ \A k \in DOMAIN PriorityOrder :
              buildChecklist(baseSong)[k].done = Satisfied(baseSong, PriorityOrder[k])
        /\ (chatResponse.prompt = <<>>
              <=> \A k \in DOMAIN PriorityOrder : Satisfied(baseSong, PriorityOrder[k]))
        /\ \A k \in DOMAIN PriorityOrder :
              (/\ ~Satisfied(baseSong, PriorityOrder[k])
               /\ \A h \in 1..(k - 1) : Satisfied(baseSong, PriorityOrder[h]))
              => /\ chatResponse.prompt # <<>>
                 /\ BelongsTo(chatResponse.prompt[1], PriorityOrder[k])

\* what holds of the checklist: the order, null exactly when complete, and
\* the item's own question for every item but the title
C19_ExceptTitle ==
    chatPc = "prompted" =>
        /\ (chatResponse.prompt = <<>>
              <=> \A k \in DOMAIN PriorityOrder : Satisfied(baseSong, PriorityOrder[k]))
        /\ \A k \in 2..Len(PriorityOrder) :
              (/\ ~Satisfied(baseSong, PriorityOrder[k])
               /\ \A h \in 1..(k - 1) : Satisfied(baseSong, PriorityOrder[h]))
              => BelongsTo(chatResponse.prompt[1], PriorityOrder[k])

\* C27, for the resolver: after a rule-based turn on a schema-valid Song with
\* pairwise distinct track ids the ids are still pairwise distinct (violated
\* by "add bass" on the electric bass)
C27_ResolverKeepsIdsUnique ==
    (chatPc = "resolved" /\ IsValidSong(baseSong) /\ IdsDistinct(baseSong.tracks)) =>
        IdsDistinct(chatResponse.song.tracks)

(***************************************************************************)
(* The generate-song route, and the two routes that take a song from the    *)
(* agent                                                                    *)
(***************************************************************************)
GenNext ==
    /\ \/ GenPost
       \/ \E content \in AgentContents : SongwriterResponds(content)
       \/ SongwriterFails
       \/ \E answer \in GenMidiAnswers : MidiGenResponds(answer)
       \/ MidiGenFails
    /\ UNCHANGED <<mapperVars, validatorVars, opsVars, midiVars, exportVars, chatVars, clientVars>>

GenSpecInit ==
    GenInit /\ MapperIdle /\ ValidatorIdle /\ OpsIdle /\ MidiIdle /\ ExportIdle /\ ChatIdle /\ ClientIdle

GenSpec == GenSpecInit /\ [][GenNext]_vars

\* one request, to the chat route or to the generate-song route
AgentRoutesInit ==
    /\ (ChatInit /\ GenIdle) \/ (GenInit /\ ChatIdle)
    /\ MapperIdle /\ ValidatorIdle /\ OpsIdle /\ MidiIdle /\ ExportIdle /\ ClientIdle

AgentRoutesNext == ChatNext \/ GenNext

AgentRoutesSpec == AgentRoutesInit /\ [][AgentRoutesNext]_vars

\* the song objects of the completions in the set contents
AgentSongsIn(contents) ==
    {c.parsed.song : c \in {x \in contents : Has(x, "parsed") /\ Has(x.parsed, "song")}}

\* the completions the chat route received in this turn
ChatReceived == Range(firstContent) \cup Range(retryContent)

\* s is the agent's song agentSong as far as the agent wrote it: the same
\* metadata values and the same draft
Carries(s, agentSong) ==
    /\ \A k \in DOMAIN agentSong.metadata :
          Has(s.metadata, k) /\ s.metadata[k] = agentSong.metadata[k]
    /\ Has(agentSong, "draftText") => Get(s, "draftText", <<>>) = agentSong.draftText

\* C20: a Song taken from the agent's response, in the chat route or in the
\* generate-song route, is in the route's result only if that song value
\* passed Schema Validation; an agent song that fails validation is never
\* returned.
C20_ValidationGate ==
    /\ (chatPc = "done" /\ chatResponse.status = 200) =>
          \A a \in AgentSongsIn(ChatReceived) :
              Carries(chatResponse.song, a) => IsValidSong(a)
    /\ (genPc = "done" /\ genResponse.status = 200) =>
          /\ AgentSongsIn(Range(genContent)) # {}
          /\ \A a \in AgentSongsIn(Range(genContent)) :
                IsValidSong(a) /\ Carries(genResponse.song, a)

\* the chat route answered with the agent's repaired song after a first song
\* that failed validation
C20_Witness ==
    /\ chatPc = "done"
    /\ chatResponse.status = 200
    /\ \E a \in AgentSongsIn(Range(firstContent)) : ~IsValidSong(a)
    /\ \E a \in AgentSongsIn(Range(retryContent)) :
          IsValidSong(a) /\ Carries(chatResponse.song, a)

\* the generate-song route answered 500 to an agent song that failed
\* validation, and answered with the agent's song that passed it
C20_WitnessRejected ==
    /\ genPc = "done"
    /\ genResponse.status = 500
    /\ \E a \in AgentSongsIn(Range(genContent)) : ~IsValidSong(a)

C20_WitnessGenerated ==
    /\ genPc = "done"
    /\ genResponse.status = 200
    /\ \E a \in AgentSongsIn(Range(genContent)) : Carries(genResponse.song, a)

(***************************************************************************)
(* The client component                                                    *)
(***************************************************************************)
ClientNext ==
    /\ \/ \E text \in ClientInputs : ClientSend(text)
       \/ \E title \in ClientTitles : ClientQuickGenerate(title)
       \/ \E answer \in ServerAnswers : ClientReceives(answer)
       \/ ClientFetchFails
    /\ UNCHANGED <<mapperVars, validatorVars, opsVars, midiVars, exportVars, chatVars, genVars>>

ClientSpecInit ==
    ClientInit /\ MapperIdle /\ ValidatorIdle /\ OpsIdle /\ MidiIdle /\ ExportIdle /\ ChatIdle
    /\ GenIdle

ClientSpec == ClientSpecInit /\ [][ClientNext]_vars

\* the Song that the answers received up to the k-th leave in the client: the
\* song of the last answer that was OK and could be parsed, and the initial
\* empty Song when there is none
RECURSIVE HeldAfter(_)
HeldAfter(k) ==
    IF k = 0 THEN createEmptySong
    ELSE IF answers[k].kind = "response" /\ answers[k].ok /\ answers[k].body.kind # "text"
         THEN IF answers[k].body.kind = "json" /\ Has(answers[k].body.data, "song")
              THEN answers[k].body.data.song
              ELSE Undefined
         ELSE HeldAfter(k - 1)

\* C30: when a request fails (an answer that is not OK, or an error thrown)
\* the held Song is the one from before the request and isSubmitting is false
\* again, the next chat turn is sent with that Song, and the held Song is
\* replaced only by the song of a successful answer: at every moment the held
\* Song is the song of the last successful answer (the initial Song when there
\* is none), and every chat request carried the Song held when it was sent.
C30_FailedTurnKeepsSnapshot ==
    clientPc # "off" =>
        /\ clientSong = HeldAfter(Len(answers))
        /\ \A k \in DOMAIN sent :
              sent[k].url = ChatUrl => sent[k].body.song = HeldAfter(k - 1)
        /\ Len(answers) = Len(sent) => ~isSubmitting

\* a turn failed with a non-OK answer after a turn that had replaced the Song:
\* the client still holds the Song of the first answer
C30_Witness ==
    /\ Len(answers) = 2
    /\ answers[1].kind = "response"
    /\ answers[1].ok
    /\ answers[1].body.kind = "json"
    /\ answers[1].body.data.song # createEmptySong
    /\ answers[2].kind = "response"
    /\ ~answers[2].ok
    /\ clientSong = answers[1].body.data.song
    /\ ~isSubmitting
    /\ clientError # NoError

\* the turn after a failed one is on its way with the Song of the first turn
C30_WitnessNextTurn ==
    /\ Len(sent) = 2
    /\ Len(answers) = 1
    /\ answers[1] = Rejected
    /\ sent[1].url = ChatUrl
    /\ sent[2].url = ChatUrl
    /\ sent[2].body.song = sent[1].body.song
    /\ isSubmitting

====
